---- MODULE Spec2Model ----
(***************************************************************************)
(* gst-wlr-screencopy-src: the capture session of the wlrscreencopysrc     *)
(* element (src/wlrscreencopysrc/imp.rs), the frame request it tracks,     *)
(* the event handlers that advance it, and the buffer pool it copies into  *)
(* (src/buffer_pool/imp.rs).                                               *)
(***************************************************************************)
EXTENDS Integers, Sequences, FiniteSets, TLC

\* -------------------------------------------------------------------------
\* Bounds of the model
\* -------------------------------------------------------------------------

\* capture_output requests issued in one session
MaxFrames == 3

\* entries kept in one candidate list of a frame request
MaxFormats == 1

\* buffers (allocated by the pool or copied) that are followed
MaxBuffers == 2

\* -------------------------------------------------------------------------
\* Values
\* -------------------------------------------------------------------------

\* Option<T>: None is the empty sequence, Some(x) the sequence of x alone
None == <<>>

Some(x) == <<x>>

\* Option<T>::is_some
IsSome(o) == o # None

\* Option<T>::unwrap on a Some
Unwrap(o) == o[1]

\* the pipeline's pixel formats that appear in caps (gstreamer_video::VideoFormat)
VideoFormats == {"Bgrx", "Xrgb", "Nv12"}

\* wl_shm::Format values a compositor advertises; "Unknown" is a code the
\* enum does not know (WEnum::Unknown)
ShmCodes == {"Xrgb8888", "Unknown"}

\* DRM fourcc values a compositor advertises; "Unknown" is a code
\* DrmFourcc::try_from rejects
DrmCodes == {"Bgrx8888", "Unknown"}

Widths == {2}
Heights == {1}
Strides == {8}

\* the wl_output globals of the compositor, by the name each one reports
OutputNames == <<"eDP-1", "HDMI-1">>

\* values of the output-name property
OutputNameSettings == {None, Some("HDMI-1")}

\* -------------------------------------------------------------------------
\* FormatTranslation (src/utils.rs)
\* -------------------------------------------------------------------------

gst_video_format_from_wl_shm(format) ==
    CASE format = "Abgr8888" -> Some("Rgba")
      [] format = "Argb8888" -> Some("Bgra")
      [] format = "Bgra8888" -> Some("Argb")
      [] format = "Bgrx8888" -> Some("Xrgb")
      [] format = "Rgba8888" -> Some("Abgr")
      [] format = "Rgbx8888" -> Some("Xbgr")
      [] format = "Xbgr8888" -> Some("Rgbx")
      [] format = "Xrgb8888" -> Some("Bgrx")
      [] OTHER -> None

\* gst_video_format_to_wl_shm with the names of the DRM table, which spell
\* the channels in the other byte order
gst_video_format_to_wl_shm_DrmNames(format) ==
    CASE format = "Abgr" -> Some("Abgr8888")
      [] format = "Argb" -> Some("Argb8888")
      [] format = "Bgra" -> Some("Bgra8888")
      [] format = "Bgrx" -> Some("Bgrx8888")
      [] format = "Rgba" -> Some("Rgba8888")
      [] format = "Rgbx" -> Some("Rgbx8888")
      [] format = "Xbgr" -> Some("Xbgr8888")
      [] format = "Xrgb" -> Some("Xrgb8888")
      [] OTHER -> None

gst_video_format_to_wl_shm(format) ==
    CASE format = "Abgr" -> Some("Rgba8888")
      [] format = "Argb" -> Some("Bgra8888")
      [] format = "Bgra" -> Some("Argb8888")
      [] format = "Bgrx" -> Some("Xrgb8888")
      [] format = "Rgba" -> Some("Abgr8888")
      [] format = "Rgbx" -> Some("Xbgr8888")
      [] format = "Xbgr" -> Some("Rgbx8888")
      [] format = "Xrgb" -> Some("Bgrx8888")
      [] OTHER -> None

\* gst_video_format_from_drm_fourcc with a ninth entry
gst_video_format_from_drm_fourcc_Nv12(format) ==
    CASE format = "Abgr8888" -> Some("Abgr")
      [] format = "Argb8888" -> Some("Argb")
      [] format = "Bgra8888" -> Some("Bgra")
      [] format = "Bgrx8888" -> Some("Bgrx")
      [] format = "Rgba8888" -> Some("Rgba")
      [] format = "Rgbx8888" -> Some("Rgbx")
      [] format = "Xbgr8888" -> Some("Xbgr")
      [] format = "Xrgb8888" -> Some("Xrgb")
      [] format = "Nv12" -> Some("Nv12")
      [] OTHER -> None

gst_video_format_from_drm_fourcc(format) ==
    CASE format = "Abgr8888" -> Some("Abgr")
      [] format = "Argb8888" -> Some("Argb")
      [] format = "Bgra8888" -> Some("Bgra")
      [] format = "Bgrx8888" -> Some("Bgrx")
      [] format = "Rgba8888" -> Some("Rgba")
      [] format = "Rgbx8888" -> Some("Rgbx")
      [] format = "Xbgr8888" -> Some("Xbgr")
      [] format = "Xrgb8888" -> Some("Xrgb")
      [] OTHER -> None

gst_video_format_to_drm_fourcc(format) ==
    CASE format = "Abgr" -> Some("Abgr8888")
      [] format = "Argb" -> Some("Argb8888")
      [] format = "Bgra" -> Some("Bgra8888")
      [] format = "Bgrx" -> Some("Bgrx8888")
      [] format = "Rgba" -> Some("Rgba8888")
      [] format = "Rgbx" -> Some("Rgbx8888")
      [] format = "Xbgr" -> Some("Xbgr8888")
      [] format = "Xrgb" -> Some("Xrgb8888")
      [] OTHER -> None

\* -------------------------------------------------------------------------
\* State
\* -------------------------------------------------------------------------

VARIABLES
    pc,             \* position of the thread that runs change_state / create
    settings,       \* Settings behind WlrScreencopySrc::settings
    dmabuf,         \* WaylandState::dmabuf is Some (linux-dmabuf global bound)
    outputs,        \* WaylandState::outputs, the OutputInfo of each entry
    current_frame,  \* WaylandState::current_frame: None or Some (frame, FrameInfo)
    next_frame,     \* identity the next ZwlrScreencopyFrameV1 proxy gets
    buffer_pool,    \* the pool decide_allocation installed, None before it
    new_buffer,     \* create(): the buffer acquired for the copy
    frame_state,    \* create(): the terminal state taken from the old frame
    wire,           \* requests sent to the compositor and returns of create()
    returned,       \* what the last call of create() returned
    delivered,      \* the event a handler is run on (SpecEvent), the events
                    \* delivered so far (SpecDiscovery, SpecAccumulation)
    objects,        \* protocol objects the pool created, and their destroys
    buffers,        \* buffers the pool allocated and copies made of them
    last,           \* the last call made on the pool and what it returned
    query,          \* the last query answered from the state, and its answer
    threads         \* each thread's position in its call and the mutexes of
                    \* WlrScreencopySrc it holds (SpecThreads)

vars == <<pc, settings, dmabuf, outputs, current_frame, next_frame,
          buffer_pool, new_buffer, frame_state, wire, returned, delivered,
          objects, buffers, last, query, threads>>

\* the variables of the pool alone
poolvars == <<objects, buffers, last>>

\* FrameInfo::default()
FrameInfo ==
    [shm_formats |-> <<>>, dmabuf_formats |-> <<>>, done |-> FALSE,
     state |-> None, flags |-> None]

\* Mode::default()
Mode == [width |-> 0, height |-> 0, refresh |-> 0]

\* OutputInfo::default()
OutputInfo == [name |-> "", description |-> "", mode |-> Mode, done |-> FALSE]

\* the tuple stored in current_frame by capture_output; output is the
\* position in outputs of the wl_output the request was made for
NewFrame(id, output) == [frame |-> id, output |-> output, info |-> FrameInfo]

\* what a handler leaves behind: the value it worked on, and whether it
\* panicked on the way
Done(value) == [panic |-> FALSE, value |-> value]

Panic(value) == [panic |-> TRUE, value |-> value]

\* Vec::push that puts the new element first
Push_Front(seq, x) == <<x>> \o seq

\* Vec::push
Push(seq, x) == Append(seq, x)

\* FrameState; the 64-bit seconds of the Duration are kept as their high and
\* low 32-bit words, (tv_sec_hi as u64) << 32 | tv_sec_lo as u64
Ready(secs_hi, secs_lo, nanos) ==
    [tag |-> "Ready", secs_hi |-> secs_hi, secs_lo |-> secs_lo, nanos |-> nanos]

Failed == [tag |-> "Failed", secs_hi |-> 0, secs_lo |-> 0, nanos |-> 0]

\* -------------------------------------------------------------------------
\* Event handlers (impl Dispatch<...> for WaylandState)
\* -------------------------------------------------------------------------

\* the FrameShmFormat a Buffer event carries
ShmFormatOf(event) ==
    [format |-> event.format, width |-> event.width, height |-> event.height,
     stride |-> event.stride]

\* the FrameDmabufFormat a LinuxDmabuf event carries
DmabufFormatOf(event) ==
    [format |-> event.format, width |-> event.width, height |-> event.height]

\* the body of the match in Dispatch<ZwlrScreencopyFrameV1>::event, applied
\* to the FrameInfo of the tracked request
FrameInfoEvent(frame_info, event) ==
    CASE event.kind = "Buffer" ->
            IF event.format # "Unknown"               \* format.into_result()
            THEN Done([frame_info EXCEPT !.shm_formats = Push(@, ShmFormatOf(event))])
            ELSE Done(frame_info)
      [] event.kind = "Flags" ->
            IF event.flags = "Invalid"                \* into_result().unwrap()
            THEN Panic(frame_info)
            ELSE Done([frame_info EXCEPT !.flags = Some(event.flags)])
      [] event.kind = "Ready" ->
            Done([frame_info EXCEPT !.state =
                    Some(Ready(event.tv_sec_hi, event.tv_sec_lo, event.tv_nsec))])
      [] event.kind = "Failed" ->
            Done([frame_info EXCEPT !.state = Some(Failed)])
      [] event.kind = "Damage" -> Done(frame_info)
      [] event.kind = "LinuxDmabuf" ->
            IF event.format # "Unknown"               \* DrmFourcc::try_from
            THEN Done([frame_info EXCEPT
                        !.dmabuf_formats = Push(@, DmabufFormatOf(event))])
            ELSE Done(frame_info)
      [] event.kind = "BufferDone" ->
            Done([frame_info EXCEPT !.done = TRUE])
      [] OTHER -> Panic(frame_info)                   \* todo!()

\* FrameEvent without the comparison of the frame with the proxy
FrameEvent_NoProxyCheck(cf, proxy, event) ==
    IF cf = None THEN Panic(cf)
    ELSE LET r == FrameInfoEvent(Unwrap(cf).info, event)
         IN  [panic |-> r.panic,
              value |-> Some([Unwrap(cf) EXCEPT !.info = r.value])]

\* Dispatch<ZwlrScreencopyFrameV1>::event: what the handler leaves in
\* current_frame for `event` received on the frame object `proxy`
FrameEvent(cf, proxy, event) ==
    IF cf = None THEN Panic(cf)                       \* expect("no frame")
    ELSE IF Unwrap(cf).frame # proxy THEN Panic(cf)   \* panic!("wrong frame")
    ELSE LET r == FrameInfoEvent(Unwrap(cf).info, event)
         IN  [panic |-> r.panic,
              value |-> Some([Unwrap(cf) EXCEPT !.info = r.value])]

\* an event of a wl_output or of its zxdg_output_v1 (`source`) and its
\* arguments; `current` is the Current bit of the flags of a Mode event
OutputEventOf(source, kind, name, width, height, refresh, current) ==
    [source |-> source, kind |-> kind, name |-> name, width |-> width,
     height |-> height, refresh |-> refresh, current |-> current]

\* OutputEvent that stores every mode it is told, current or not
OutputEvent_AnyMode(output_info, event) ==
    CASE event.kind = "Mode" /\ event.source = "wl_output" ->
            [output_info EXCEPT
                !.mode = [width |-> event.width, height |-> event.height,
                          refresh |-> event.refresh]]
      [] event.kind = "Done" -> [output_info EXCEPT !.done = TRUE]
      [] event.kind = "Name" -> [output_info EXCEPT !.name = event.name]
      [] event.kind = "Description" ->
            [output_info EXCEPT !.description = event.name]
      [] OTHER -> output_info

\* Dispatch<WlOutput>::event and Dispatch<ZxdgOutputV1>::event: the
\* OutputInfo of the output the event is for, after the handler
OutputEvent(output_info, event) ==
    CASE event.kind = "Mode" /\ event.source = "wl_output" ->
            IF event.current
            THEN [output_info EXCEPT
                    !.mode = [width |-> event.width, height |-> event.height,
                              refresh |-> event.refresh]]
            ELSE output_info
      [] event.kind = "Done" -> [output_info EXCEPT !.done = TRUE]
      [] event.kind = "Name" -> [output_info EXCEPT !.name = event.name]
      [] event.kind = "Description" ->
            [output_info EXCEPT !.description = event.name]
      [] OTHER -> output_info     \* Geometry, Scale, LogicalPosition, LogicalSize

\* -------------------------------------------------------------------------
\* What the compositor can send
\* -------------------------------------------------------------------------

\* a frame event and its arguments; arguments an event does not have are 0
Event(kind, format, width, height, stride, flags, hi, lo, nsec) ==
    [kind |-> kind, format |-> format, width |-> width, height |-> height,
     stride |-> stride, flags |-> flags,
     tv_sec_hi |-> hi, tv_sec_lo |-> lo, tv_nsec |-> nsec]

BufferEvents ==
    {Event("Buffer", f, w, h, s, "", 0, 0, 0) :
        f \in ShmCodes, w \in Widths, h \in Heights, s \in Strides}

LinuxDmabufEvents ==
    {Event("LinuxDmabuf", f, w, h, 0, "", 0, 0, 0) :
        f \in DrmCodes, w \in Widths, h \in Heights}

OtherFrameEvents ==
    {Event("Flags", "", 0, 0, 0, a, 0, 0, 0) : a \in {"YInvert", "Invalid"}}
    \cup {Event("Ready", "", 0, 0, 0, "", 0, lo, 0) : lo \in {1}}
    \cup {Event(k, "", 0, 0, 0, "", 0, 0, 0) : k \in {"Failed", "Damage", "BufferDone"}}

\* events of the screencopy frame protocol for the tracked request; a
\* candidate is advertised only while the list it goes to has room
FrameEvents(cf) ==
    (IF IsSome(cf) /\ Len(Unwrap(cf).info.shm_formats) < MaxFormats
        THEN BufferEvents ELSE {})
    \cup
    (IF IsSome(cf) /\ Len(Unwrap(cf).info.dmabuf_formats) < MaxFormats
        THEN LinuxDmabufEvents ELSE {})
    \cup OtherFrameEvents

\* -------------------------------------------------------------------------
\* Output selection (connect_to_wl_display, create)
\* -------------------------------------------------------------------------

\* SelectOutput that ignores the output-name setting
SelectOutput_First(outs, output_name) == IF Len(outs) > 0 THEN 1 ELSE 0

\* SelectOutput that takes the first output when none has the name
SelectOutput_Fallback(outs, output_name) ==
    IF Len(outs) = 0 THEN 0
    ELSE IF IsSome(output_name)
            /\ \E i \in 1..Len(outs) : outs[i].name = Unwrap(output_name)
         THEN CHOOSE i \in 1..Len(outs) : outs[i].name = Unwrap(output_name)
         ELSE 1

\* the position in outputs of the output a capture targets, 0 when
\* find(..) is None or first() is None (the caller panics)
SelectOutput(outs, output_name) ==
    IF IsSome(output_name)
    THEN IF \E i \in 1..Len(outs) : outs[i].name = Unwrap(output_name)
         THEN CHOOSE i \in 1..Len(outs) :
                /\ outs[i].name = Unwrap(output_name)
                /\ \A j \in 1..(i - 1) : outs[j].name # Unwrap(output_name)
         ELSE 0
    ELSE IF Len(outs) > 0 THEN 1 ELSE 0

\* FormatsAnnounced that leaves the loop without waiting for buffer_done
FormatsAnnounced_NoWait(cf) == IsSome(cf)

\* the exit condition of the loops that wait for the frame's formats
\* (connect_to_wl_display's last loop and create()'s second loop):
\* current_frame.map(|(_, info)| info.done).unwrap_or(false)
FormatsAnnounced(cf) == IsSome(cf) /\ Unwrap(cf).info.done

\* TerminalReached that leaves the loop without waiting for ready / failed
TerminalReached_NoWait(cf) == IsSome(cf)

\* the exit condition of create()'s first loop:
\* current_frame.map(|(_, info)| info.state.is_some()).unwrap_or(false)
TerminalReached(cf) == IsSome(cf) /\ IsSome(Unwrap(cf).info.state)

\* positions of the thread inside a blocking_dispatch loop
Dispatching == {"connect_outputs", "connect_frame", "create_copy", "create_rearm"}

\* -------------------------------------------------------------------------
\* VideoInfo (gstreamer_video) as decide_allocation and the pool use it
\* -------------------------------------------------------------------------

RoundUp(n, m) == ((n + m - 1) \div m) * m

\* VideoInfo::n_planes()
NPlanes(format) == IF format = "Nv12" THEN 2 ELSE 1

\* VideoInfo::stride()[0]: four bytes a pixel for the formats of the
\* translation tables, one byte a pixel for the luma plane of Nv12
VideoInfoStride(format, width) ==
    IF format = "Nv12" THEN RoundUp(width, 4) ELSE 4 * width

\* VideoInfo::size() of a layout whose first plane has stride `stride`
VideoInfoSize(format, stride, height) ==
    IF format = "Nv12"
    THEN stride * RoundUp(height, 2) + stride * (RoundUp(height, 2) \div 2)
    ELSE stride * height

\* caps as the pool config and the allocation query carry them
Caps(format, width, height) == [format |-> format, width |-> width, height |-> height]

\* VideoInfo::from_caps: None for Err
VideoInfoFromCaps(caps) ==
    IF caps.format \in VideoFormats /\ caps.width > 0 /\ caps.height > 0
    THEN Some([format |-> caps.format, width |-> caps.width, height |-> caps.height,
               stride |-> VideoInfoStride(caps.format, caps.width),
               size |-> VideoInfoSize(caps.format,
                                      VideoInfoStride(caps.format, caps.width),
                                      caps.height)])
    ELSE None

\* VideoInfo::align with no padding and the stride mask `stride_align` on
\* every plane: the strides grow to the next multiple of stride_align + 1
VideoInfoAlign(video_info, stride_align) ==
    [video_info EXCEPT
        !.stride = RoundUp(video_info.stride, stride_align + 1),
        !.size = VideoInfoSize(video_info.format,
                               RoundUp(video_info.stride, stride_align + 1),
                               video_info.height)]

\* a | b for alignment masks of the form 2^k - 1
MaskOr(a, b) == IF a > b THEN a ELSE b

\* -------------------------------------------------------------------------
\* WaylandBufferPool (src/buffer_pool/imp.rs)
\* -------------------------------------------------------------------------

\* State of a pool WaylandBufferPool::new has built; config is what the
\* parent GstBufferPool committed on its last successful set_config
PoolState(has_dmabuf) ==
    [zwp_linux_dmabuf |-> has_dmabuf, video_info |-> None, allocator |-> None,
     allocation_params |-> None, add_video_meta |-> FALSE, config |-> None]

\* a GstBufferPool config: params and allocator are None until they are set
PoolConfig(params, allocator, video_meta, video_alignment, video_align) ==
    [params |-> params, allocator |-> allocator, video_meta |-> video_meta,
     video_alignment |-> video_alignment, video_align |-> video_align]

\* config.set_params(caps, size, min, max)
ConfigParams(caps, size, min_buffers, max_buffers) ==
    [caps |-> caps, size |-> size, min_buffers |-> min_buffers,
     max_buffers |-> max_buffers]

\* AllocationParams::align() of the default params
DefaultAlign == 0

\* config.set_allocator(allocator, params): the AllocationParams are kept as
\* their align mask, and the config stores the default params for None
ConfigAllocator(allocator, allocation_params) ==
    [allocator |-> allocator,
     align |-> IF allocation_params # None THEN Unwrap(allocation_params)
               ELSE DefaultAlign]

\* a config without params, without caps or with caps that are no video
\* layout is taken as a 1x1 layout instead of being rejected
ParsedConfig_DefaultCaps(config) ==
    IF config.params # None /\ Unwrap(config.params).caps # None
       /\ VideoInfoFromCaps(Unwrap(Unwrap(config.params).caps)) # None
    THEN Some([caps |-> Unwrap(Unwrap(config.params).caps),
               size |-> Unwrap(config.params).size,
               min_buffers |-> Unwrap(config.params).min_buffers,
               max_buffers |-> Unwrap(config.params).max_buffers,
               video_info |-> Unwrap(VideoInfoFromCaps(Unwrap(Unwrap(config.params).caps)))])
    ELSE Some([caps |-> Caps("Bgrx", 1, 1), size |-> 0,
               min_buffers |-> 0, max_buffers |-> 0,
               video_info |-> Unwrap(VideoInfoFromCaps(Caps("Bgrx", 1, 1)))])

\* set_config, lines 206-233: the caps and layout of the config, None on
\* the three early `return false`
ParsedConfig(config) ==
    IF config.params = None THEN None
    ELSE IF Unwrap(config.params).caps = None THEN None
    ELSE IF VideoInfoFromCaps(Unwrap(Unwrap(config.params).caps)) = None THEN None
    ELSE Some([caps |-> Unwrap(Unwrap(config.params).caps),
               size |-> Unwrap(config.params).size,
               min_buffers |-> Unwrap(config.params).min_buffers,
               max_buffers |-> Unwrap(config.params).max_buffers,
               video_info |-> Unwrap(VideoInfoFromCaps(Unwrap(Unwrap(config.params).caps)))])

\* set_config, lines 235-240: the allocator and allocation params of the
\* config, the memfd allocator when the config names none
ResolvedAllocator(config) ==
    IF config.allocator # None
    THEN [allocator |-> IF Unwrap(config.allocator).allocator # None
                        THEN Unwrap(Unwrap(config.allocator).allocator)
                        ELSE "Memfd",
          allocation_params |-> Some(Unwrap(config.allocator).align)]
    ELSE [allocator |-> "Memfd", allocation_params |-> None]

\* set_config, lines 253-255: align | stride_align[0] | .. over the planes
RECURSIVE MaxAlign(_, _, _)
MaxAlign(align, stride_align, planes) ==
    IF planes = 0 THEN align
    ELSE MaskOr(MaxAlign(align, stride_align, planes - 1), stride_align[planes])

\* the size set_config commits for a requested size and a layout size
CommittedSize_Requested(size, layout_size) == size

\* set_config, line 278
CommittedSize(size, layout_size) ==
    IF size > layout_size THEN size ELSE layout_size

\* the return value of a set_config call and the State it leaves behind the
\* mutex
SetConfigResult(ok, state) == [ok |-> ok, state |-> state]

\* WaylandBufferPool::set_config on `state`; align_ok is the outcome of
\* VideoInfo::align and parent_ok the one of parent_set_config
set_config(state, config, align_ok, parent_ok) ==
    IF ParsedConfig(config) = None
    THEN SetConfigResult(FALSE, state)
    ELSE
    LET parsed == Unwrap(ParsedConfig(config))
        resolved == ResolvedAllocator(config)
        flagged == [state EXCEPT !.add_video_meta = config.video_meta]
        aligning == /\ config.video_alignment
                    /\ config.video_meta
                    /\ config.video_align # None
        align == IF resolved.allocation_params # None
                 THEN Unwrap(resolved.allocation_params) ELSE DefaultAlign
        max_align == IF aligning
                     THEN MaxAlign(align, Unwrap(config.video_align),
                                   NPlanes(parsed.video_info.format))
                     ELSE align
        video_info == IF aligning THEN VideoInfoAlign(parsed.video_info, max_align)
                      ELSE parsed.video_info
        fixing == aligning /\ align < max_align
        allocation_params == IF fixing /\ resolved.allocation_params # None
                             THEN Some(max_align)
                             ELSE resolved.allocation_params
        config_allocator == IF fixing THEN Some(resolved.allocator)
                            ELSE IF config.allocator # None
                                 THEN Unwrap(config.allocator).allocator
                                 ELSE None
        size == CommittedSize(parsed.size, video_info.size)
        committed == [flagged EXCEPT
                         !.video_info = Some(video_info),
                         !.allocator = Some(resolved.allocator),
                         !.allocation_params = Some(allocation_params),
                         !.config = IF parent_ok
                                    THEN Some([size |-> size,
                                               allocator |-> config_allocator,
                                               min_buffers |-> parsed.min_buffers,
                                               max_buffers |-> parsed.max_buffers])
                                    ELSE @]
    IN  IF aligning /\ ~align_ok
        THEN SetConfigResult(FALSE, flagged)
        ELSE SetConfigResult(parent_ok, committed)

\* -------------------------------------------------------------------------
\* Memory the allocators hand to alloc_buffer
\* -------------------------------------------------------------------------

\* a gstreamer::Memory: its kind, the size it was wrapped with and the real
\* size of the region behind its descriptor
Memory(kind, size, real) == [kind |-> kind, size |-> size, real |-> real]

NoMemory(kind) == Memory(kind, 0, 0)

\* GbmMemoryAllocator::alloc: the formats it has a fourcc for
GbmFormats == {"Abgr", "Argb", "Bgra", "Bgrx", "Rgba", "Rgbx", "Xbgr", "Xrgb"}

\* GbmAlloc that hands out dmabuf memory or the memory of a sealed memfd
GbmAlloc_EitherKind(video_info) ==
    {Memory(kind, video_info.size, video_info.size) : kind \in {"DmaBuf", "Fd"}}

\* GbmMemoryAllocator::alloc: a linear buffer object of width x height is
\* exported and wrapped as dmabuf memory of video_info.size() bytes; the
\* object's own size follows the stride the device picks, from the tight
\* stride of the format upwards, and is not read back
GbmAlloc(video_info) ==
    IF video_info.format \notin GbmFormats
    THEN {NoMemory("Panic")}
    ELSE {Memory("DmaBuf", video_info.size, real) :
            real \in {VideoInfoSize(video_info.format,
                                    VideoInfoStride(video_info.format, video_info.width),
                                    video_info.height),
                      video_info.size}}

\* MemfdMemoryAllocator::alloc: a sealed memfd set to `size` bytes
MemfdAlloc(size) == {Memory("Fd", size, size), NoMemory("Err")}

\* DmaHeapMemoryAllocator: dmabuf memory of at least `size` bytes, or an error
DmaHeapAlloc(size) == {Memory("DmaBuf", size, size), NoMemory("Err")}

\* alloc_buffer, lines 77-93: the memory of the new buffer, from the gbm
\* allocator or from the parent pool's allocation with the committed config
AllocMemory(pool) ==
    IF pool.allocator = Some("Gbm")
    THEN GbmAlloc(Unwrap(pool.video_info))
    ELSE CASE Unwrap(pool.config).allocator = Some("Memfd") ->
                 MemfdAlloc(Unwrap(pool.config).size)
           [] Unwrap(pool.config).allocator = Some("DmaHeap") ->
                 DmaHeapAlloc(Unwrap(pool.config).size)
           [] Unwrap(pool.config).allocator = Some("Gbm") ->
                 {NoMemory("Err")}
           [] OTHER ->
                 {Memory("System", Unwrap(pool.config).size, Unwrap(pool.config).size),
                  NoMemory("Err")}

\* -------------------------------------------------------------------------
\* alloc_buffer
\* -------------------------------------------------------------------------

NoBuffer == [memory |-> "", format |-> "", width |-> 0, height |-> 0]

\* a protocol object the pool created: how many destroy requests it has
\* sent, and whether it is the handle in the meta of a returned buffer
Object(kind, destroyed, attached) ==
    [kind |-> kind, destroyed |-> destroyed, attached |-> attached]

\* the outcome of an alloc_buffer call: the buffer (None for Err), the
\* protocol objects the call created, and whether it panicked
Allocated(buffer, created) == [buffer |-> buffer, objects |-> created, panic |-> FALSE]

AllocPanic == [buffer |-> None, objects |-> <<>>, panic |-> TRUE]

\* the wl_buffer is created with the code of the other vocabulary's table
ImportFormat_ShmTable(memory, format) == gst_video_format_to_wl_shm(format)

\* alloc_buffer, lines 116 and 163: the code the wl_buffer is created with
ImportFormat(memory, format) ==
    IF memory = "DmaBuf" THEN gst_video_format_to_drm_fourcc(format)
    ELSE gst_video_format_to_wl_shm(format)

\* alloc_buffer that returns the buffer without adding the WaylandBufferMeta
alloc_buffer_NoMeta(pool, mem, meta_ok) ==
    IF mem.kind \notin {"DmaBuf", "Fd"} THEN Allocated(None, <<>>)
    ELSE Allocated(Some([memory |-> mem.kind,
                         format |-> Unwrap(ImportFormat(mem.kind, "Bgrx")),
                         width |-> Unwrap(pool.video_info).width,
                         height |-> Unwrap(pool.video_info).height]),
                   <<Object("exchange", 1, FALSE), Object("wl_buffer", 0, FALSE)>>)

\* WaylandBufferPool::alloc_buffer for the memory `mem` of the new buffer;
\* meta_ok is the outcome of VideoMeta::add_full
alloc_buffer(pool, mem, meta_ok) ==
    LET video_info == Unwrap(pool.video_info)
        exchange == IF mem.kind = "DmaBuf" THEN "params" ELSE "shm_pool"
        format == ImportFormat(mem.kind, video_info.format)
    IN  IF mem.kind = "Panic" THEN AllocPanic
        ELSE IF mem.kind \notin {"DmaBuf", "Fd"} THEN Allocated(None, <<>>)
        ELSE IF mem.kind = "DmaBuf" /\ ~pool.zwp_linux_dmabuf THEN AllocPanic
        ELSE IF format = None
        THEN Allocated(None, <<Object(exchange, 1, FALSE)>>)
        ELSE IF pool.add_video_meta /\ ~meta_ok
        THEN Allocated(None, <<Object(exchange, 1, FALSE),
                               Object("wl_buffer", 0, FALSE)>>)
        ELSE Allocated(Some([memory |-> mem.kind,
                             format |-> Unwrap(format),
                             width |-> video_info.width,
                             height |-> video_info.height]),
                       <<Object(exchange, 1, FALSE), Object("wl_buffer", 0, TRUE)>>)

\* a call on the pool: its config (set_config), its return value and the
\* State of the pool before it
Call(op, config, ok, before) ==
    [op |-> op, config |-> config, ok |-> ok, before |-> before]

NoCall == Call("", None, FALSE, None)

\* a function that only reads: its argument, what it returned, and the
\* argument of the query whose answer it was given (None when there was none)
Query(op, arg, result, origin) ==
    [op |-> op, arg |-> arg, result |-> result, origin |-> origin]

NoQuery == Query("", None, None, None)

\* -------------------------------------------------------------------------
\* Requests on the wire and returns of create(), in the order they happen
\* -------------------------------------------------------------------------

Request(op, frame) == [op |-> op, frame |-> frame, result |-> "", state |-> None]

CaptureOutput(frame) == Request("capture_output", frame)

Copy(frame) == Request("copy", frame)

Destroy(frame) == Request("destroy", frame)

\* create() returned `result`; frame is the request it copied into (0 when it
\* returned before the copy) and state the terminal state it took from it
Return(frame, result, state) ==
    [Request("return", frame) EXCEPT !.result = result, !.state = state]

\* -------------------------------------------------------------------------
\* Initial state: the element after construction, in the NULL state
\* -------------------------------------------------------------------------

\* the threads that call into the element: the one that changes its state,
\* the one that streams (caps, decide_allocation, create), and one that
\* reads and writes properties
Threads == {"state_change", "streaming", "control"}

\* no call is running: every thread is at no position of a call and holds
\* no guard
IdleThreads == [t \in Threads |-> [at |-> "idle", held |-> {}]]

NoEvent == [proxy |-> 0, event |-> Event("", "", 0, 0, 0, "", 0, 0, 0)]

\* everything but the settings and the position of the thread
InitSession ==
    /\ dmabuf = FALSE
    /\ outputs = <<>>
    /\ current_frame = None
    /\ next_frame = 1
    /\ buffer_pool = None
    /\ new_buffer = None
    /\ frame_state = None
    /\ wire = <<>>
    /\ returned = Return(0, "", None)
    /\ objects = <<>>
    /\ buffers = <<>>
    /\ last = NoCall
    /\ query = NoQuery
    /\ threads = IdleThreads

Init ==
    /\ pc = "null"
    /\ settings \in [output_name : OutputNameSettings]
    /\ InitSession
    /\ delivered = NoEvent

\* -------------------------------------------------------------------------
\* Control plane
\* -------------------------------------------------------------------------

\* SetProperty that also points the tracked request at the named output
SetProperty_Retargets(output_name) ==
    /\ pc \in {"null", "ready"}
    /\ settings' = [settings EXCEPT !.output_name = output_name]
    /\ current_frame' =
          IF IsSome(current_frame) /\ Len(outputs) > 1 /\ IsSome(output_name)
          THEN Some([Unwrap(current_frame) EXCEPT !.output = Len(outputs)])
          ELSE current_frame
    /\ UNCHANGED <<pc, dmabuf, outputs, next_frame, buffer_pool,
                   new_buffer, frame_state, wire, returned, delivered, poolvars, query,
                   threads>>

\* set_property("output-name"): takes the settings mutex, which change_state
\* holds during connect_to_wl_display and create() holds until it returns
SetProperty(output_name) ==
    /\ pc \in {"null", "ready"}
    /\ settings' = [settings EXCEPT !.output_name = output_name]
    /\ UNCHANGED <<pc, dmabuf, outputs, current_frame, next_frame, buffer_pool,
                   new_buffer, frame_state, wire, returned, delivered, poolvars, query,
                   threads>>

\* -------------------------------------------------------------------------
\* connect_to_wl_display, called by change_state on NullToReady
\* -------------------------------------------------------------------------

\* bind the globals and the `n` wl_output globals of the compositor
ChangeState(n, has_dmabuf) ==
    /\ pc = "null"
    /\ dmabuf' = has_dmabuf
    /\ outputs' = [i \in 1..n |-> OutputInfo]
    /\ current_frame' = None
    /\ pc' = "connect_outputs"
    /\ UNCHANGED <<settings, next_frame, buffer_pool, new_buffer, frame_state,
                   wire, returned, delivered, poolvars, query, threads>>

\* blocking_dispatch hands an output event to its handler
DispatchOutputEvent(i, event) ==
    /\ pc \in Dispatching
    /\ i \in 1..Len(outputs)
    /\ outputs' = [outputs EXCEPT ![i] = OutputEvent(@, event)]
    /\ UNCHANGED <<pc, settings, dmabuf, current_frame, next_frame, buffer_pool,
                   new_buffer, frame_state, wire, returned, delivered, poolvars, query,
                   threads>>

\* blocking_dispatch hands a frame event to its handler; events reach the
\* handler only for the live frame object
DispatchFrameEvent(event) ==
    /\ pc \in Dispatching
    /\ IsSome(current_frame)
    /\ LET r == FrameEvent(current_frame, Unwrap(current_frame).frame, event)
       IN  /\ current_frame' = r.value
           /\ pc' = IF r.panic THEN "panicked" ELSE pc
    /\ UNCHANGED <<settings, dmabuf, outputs, next_frame, buffer_pool,
                   new_buffer, frame_state, wire, returned, delivered, poolvars, query,
                   threads>>

\* blocking_dispatch fails: expect("failed to dispatch")
DispatchError ==
    /\ pc \in Dispatching
    /\ pc' = "panicked"
    /\ UNCHANGED <<settings, dmabuf, outputs, current_frame, next_frame,
                   buffer_pool, new_buffer, frame_state, wire, returned, delivered, poolvars, query,
                   threads>>

\* OutputsComplete that is satisfied by the first output that is done
OutputsComplete_Any(outs) == \E i \in 1..Len(outs) : outs[i].done

\* the exit condition of connect_to_wl_display's first loop:
\* !outputs.iter().any(|(_, _, info)| !info.done)
OutputsComplete(outs) == \A i \in 1..Len(outs) : outs[i].done

\* the first loop has ended: select the output and request the first frame
ConnectCapture ==
    /\ pc = "connect_outputs"
    /\ OutputsComplete(outputs)
    /\ LET output == SelectOutput(outputs, settings.output_name)
       IN  IF output = 0
           THEN /\ pc' = "panicked"
                /\ UNCHANGED <<current_frame, next_frame, wire>>
           ELSE /\ current_frame' = Some(NewFrame(next_frame, output))
                /\ wire' = Append(wire, CaptureOutput(next_frame))
                /\ next_frame' = next_frame + 1
                /\ pc' = "connect_frame"
    /\ UNCHANGED <<settings, dmabuf, outputs, buffer_pool, new_buffer,
                   frame_state, returned, delivered, poolvars, query, threads>>

\* the second loop has ended: store the session and return
ConnectReturn ==
    /\ pc = "connect_frame"
    /\ FormatsAnnounced(current_frame)
    /\ pc' = "ready"
    /\ UNCHANGED <<settings, dmabuf, outputs, current_frame, next_frame,
                   buffer_pool, new_buffer, frame_state, wire, returned, delivered, poolvars, query,
                   threads>>

\* -------------------------------------------------------------------------
\* decide_allocation
\* -------------------------------------------------------------------------

\* FrameCaps that gives up on the first candidate whose code has no
\* translation
FrameCaps_StopOnUnknown(frame_info) ==
    IF \/ \E j \in 1..Len(frame_info.dmabuf_formats) :
             gst_video_format_from_drm_fourcc(frame_info.dmabuf_formats[j].format) = None
       \/ \E j \in 1..Len(frame_info.shm_formats) :
             gst_video_format_from_wl_shm(frame_info.shm_formats[j].format) = None
    THEN {}
    ELSE {Caps(Unwrap(gst_video_format_from_drm_fourcc(frame_info.dmabuf_formats[i].format)),
               frame_info.dmabuf_formats[i].width, frame_info.dmabuf_formats[i].height) :
             i \in 1..Len(frame_info.dmabuf_formats)}
         \cup
         {Caps(Unwrap(gst_video_format_from_wl_shm(frame_info.shm_formats[i].format)),
               frame_info.shm_formats[i].width, frame_info.shm_formats[i].height) :
             i \in 1..Len(frame_info.shm_formats)}

\* caps(): the caps offered for the candidates of a request, one entry for
\* every candidate whose code translates
FrameCaps(frame_info) ==
    {Caps(Unwrap(gst_video_format_from_drm_fourcc(frame_info.dmabuf_formats[i].format)),
          frame_info.dmabuf_formats[i].width, frame_info.dmabuf_formats[i].height) :
        i \in {j \in 1..Len(frame_info.dmabuf_formats) :
                  IsSome(gst_video_format_from_drm_fourcc(frame_info.dmabuf_formats[j].format))}}
    \cup
    {Caps(Unwrap(gst_video_format_from_wl_shm(frame_info.shm_formats[i].format)),
          frame_info.shm_formats[i].width, frame_info.shm_formats[i].height) :
        i \in {j \in 1..Len(frame_info.shm_formats) :
                  IsSome(gst_video_format_from_wl_shm(frame_info.shm_formats[j].format))}}

\* is_dmabuf_format: the caps format translates to a fourcc the tracked
\* request advertised
IsDmabufFormat(cf, format) ==
    /\ IsSome(cf)
    /\ IsSome(gst_video_format_to_drm_fourcc(format))
    /\ \E i \in 1..Len(Unwrap(cf).info.dmabuf_formats) :
          Unwrap(cf).info.dmabuf_formats[i].format
              = Unwrap(gst_video_format_to_drm_fourcc(format))

\* the shared-memory allocator is taken whatever the request advertised
SelectAllocator_ShmOnly(cf, has_dmabuf, format, dma_heap_available) == "Memfd"

\* the allocator decide_allocation puts in the pool config
SelectAllocator(cf, has_dmabuf, format, dma_heap_available) ==
    IF IsDmabufFormat(cf, format) /\ has_dmabuf
    THEN IF dma_heap_available THEN "DmaHeap" ELSE "Gbm"
    ELSE "Memfd"

\* the shm branch finds the advertised candidate of the caps format and
\* panics when there is none (unwrap) or its stride differs (unimplemented!)
ShmFormatUsable(cf, format, width) ==
    /\ IsSome(cf)
    /\ IsSome(gst_video_format_to_wl_shm(format))
    /\ \E i \in 1..Len(Unwrap(cf).info.shm_formats) :
          LET shm_format == Unwrap(cf).info.shm_formats[i]
          IN  /\ shm_format.format = Unwrap(gst_video_format_to_wl_shm(format))
              /\ \A j \in 1..(i - 1) :
                    Unwrap(cf).info.shm_formats[j].format # shm_format.format
              /\ VideoInfoStride(format, width) = shm_format.stride

\* the config decide_allocation builds for the pool, lines 706-736
DecideAllocationConfig(caps, allocator) ==
    PoolConfig(Some(ConfigParams(Some(caps), Unwrap(VideoInfoFromCaps(caps)).size, 0, 0)),
               Some(ConfigAllocator(Some(allocator),
                                    IF allocator = "Memfd" THEN None ELSE Some(127))),
               TRUE,
               allocator # "Memfd",
               IF allocator = "Memfd" THEN None ELSE Some(<<31, 0, 0, 0>>))

\* decide_allocation for caps (format, width, height); dma_heap_available is
\* DmaHeapMemoryAllocator::is_available() at the time of the call, align_ok
\* and parent_ok the outcomes of the fallible calls inside set_config
DecideAllocation(format, width, height, dma_heap_available, align_ok, parent_ok) ==
    /\ pc = "ready"
    /\ LET allocator == SelectAllocator(current_frame, dmabuf, format,
                                        dma_heap_available)
           configured == set_config(PoolState(dmabuf),
                                    DecideAllocationConfig(Caps(format, width, height),
                                                           allocator),
                                    align_ok, parent_ok)
       IN  IF \/ allocator = "Memfd" /\ ~ShmFormatUsable(current_frame, format, width)
              \/ ~configured.ok
           THEN /\ pc' = "panicked"
                /\ UNCHANGED buffer_pool
           ELSE /\ buffer_pool' = Some(configured.state)
                /\ UNCHANGED pc
    /\ UNCHANGED <<settings, dmabuf, outputs, current_frame, next_frame,
                   new_buffer, frame_state, wire, returned, delivered, poolvars, query,
                   threads>>

\* -------------------------------------------------------------------------
\* caps
\* -------------------------------------------------------------------------

RECURSIVE Gcd(_, _)
Gcd(a, b) == IF b = 0 THEN a ELSE Gcd(b, a % b)

\* gstreamer::Fraction, kept in lowest terms
Fraction(numer, denom) ==
    [numer |-> numer \div Gcd(numer, denom), denom |-> denom \div Gcd(numer, denom)]

\* i32::MAX
I32Max == 2147483647

\* lines 589-596: the end of the framerate range, from the refresh value of
\* the mode (wl_output reports it in mHz)
OutputRefresh(output_info) ==
    IF output_info.mode.refresh > 0
    THEN Fraction(output_info.mode.refresh, 1000000)   \* approximate_f64
    ELSE Fraction(I32Max, 1)

\* video_make_raw_caps(&[format]).width(..).height(..)
\* .framerate_range(..output_refresh): one entry of the caps
SrcCapsEntry(candidate, output_refresh) ==
    [format |-> candidate.format, width |-> candidate.width,
     height |-> candidate.height,
     framerate |-> [min |-> Fraction(0, 1), max |-> output_refresh]]

\* BaseSrcImpl::caps: None stands for parent_caps(filter); `stored` is
\* wayland_state.is_some()
SrcCaps(stored, cf, outs, output_name) ==
    IF ~stored \/ cf = None THEN Done(None)
    ELSE LET output == SelectOutput(outs, output_name)
         IN  IF output = 0 THEN Panic(None)     \* panic!("output {} not found") / expect("no outputs")
             ELSE Done(Some({SrcCapsEntry(c, OutputRefresh(outs[output])) :
                               c \in FrameCaps(Unwrap(cf).info)}))

\* caps() is called; the session is stored in wayland_state when
\* connect_to_wl_display has returned, and create() holds its mutex
QueryCaps ==
    /\ pc \in {"null", "connect_outputs", "connect_frame", "ready"}
    /\ LET r == SrcCaps(pc = "ready", current_frame, outputs, settings.output_name)
       IN  /\ query' = Query("caps", settings.output_name, r.value, None)
           /\ pc' = IF r.panic THEN "panicked" ELSE pc
    /\ UNCHANGED <<settings, dmabuf, outputs, current_frame, next_frame, buffer_pool,
                   new_buffer, frame_state, wire, returned, delivered, poolvars,
                   threads>>

\* -------------------------------------------------------------------------
\* create
\* -------------------------------------------------------------------------

\* entries of `w` whose op is `op`
Entries(w, op) == {i \in 1..Len(w) : w[i].op = op}

\* acquire a buffer from the pool and send copy on the tracked request;
\* `mem` is the memory the pool's allocation gets, an error when
\* acquire_buffer fails and create() returns the error with `?`
CreateCopy(mem, meta_ok) ==
    /\ pc = "ready"
    /\ IsSome(buffer_pool)
    /\ next_frame <= MaxFrames
    /\ LET acquired == alloc_buffer(Unwrap(buffer_pool), mem, meta_ok)
       IN  IF acquired.panic
           THEN /\ pc' = "panicked"
                /\ UNCHANGED <<new_buffer, wire, returned>>
           ELSE IF acquired.buffer = None
           THEN /\ returned' = Return(0, "Err", None)
                /\ UNCHANGED <<pc, new_buffer, wire>>
           ELSE /\ new_buffer' = acquired.buffer
                /\ wire' = Append(wire, Copy(Unwrap(current_frame).frame))
                /\ pc' = "create_copy"
                /\ UNCHANGED returned
    /\ UNCHANGED <<settings, dmabuf, outputs, current_frame, next_frame,
                   buffer_pool, frame_state, delivered, poolvars, query,
                   threads>>

\* RearmRequests without the frame.destroy() of line 786
RearmRequests_NoDestroy(frame, next) == <<CaptureOutput(next)>>

\* RearmRequests that destroys the frame a second time
RearmRequests_DestroyTwice(frame, next) ==
    <<Destroy(frame), Destroy(frame), CaptureOutput(next)>>

\* what create() sends between its two loops: destroy on the frame it took
\* out of current_frame, then capture_output for the next frame
RearmRequests(frame, next) == <<Destroy(frame), CaptureOutput(next)>>

\* CreateRearm that sends its requests but keeps tracking the frame it has
\* copied instead of the one it requested
CreateRearm_KeepsFrame ==
    /\ pc = "create_copy"
    /\ TerminalReached(current_frame)
    /\ wire' = wire \o RearmRequests(Unwrap(current_frame).frame, next_frame)
    /\ next_frame' = next_frame + 1
    /\ frame_state' = Unwrap(current_frame).info.state
    /\ pc' = "create_rearm"
    /\ UNCHANGED <<settings, dmabuf, outputs, current_frame, buffer_pool,
                   new_buffer, returned, delivered, poolvars, query, threads>>

\* the first loop has ended: take and destroy the frame, unwrap its state,
\* select the output, request the next frame
CreateRearm ==
    /\ pc = "create_copy"
    /\ TerminalReached(current_frame)
    /\ LET frame == Unwrap(current_frame).frame
           state == Unwrap(current_frame).info.state
           output == SelectOutput(outputs, settings.output_name)
           requests == RearmRequests(frame, next_frame)
       IN  IF state = None \/ output = 0
           THEN /\ current_frame' = None
                /\ wire' = wire \o SubSeq(requests, 1, Len(requests) - 1)
                /\ pc' = "panicked"
                /\ UNCHANGED <<next_frame, frame_state>>
           ELSE /\ current_frame' = Some(NewFrame(next_frame, output))
                /\ wire' = wire \o requests
                /\ next_frame' = next_frame + 1
                /\ frame_state' = state
                /\ pc' = "create_rearm"
    /\ UNCHANGED <<settings, dmabuf, outputs, buffer_pool, new_buffer, returned,
                   delivered, poolvars, query, threads>>

\* the frame create() sent its copy on
CopiedFrame(w) ==
    LET i == CHOOSE i \in Entries(w, "copy") : \A j \in Entries(w, "copy") : j <= i
    IN  w[i].frame

\* CreateResult that returns the buffer whatever the terminal state is
CreateResult_AlwaysOk(state) == "Ok"

\* the result create() returns for the terminal state of the copied frame
CreateResult(state) == IF state.tag = "Ready" THEN "Ok" ELSE "Err"

\* the second loop has ended: return the buffer or the flow error
CreateReturn ==
    /\ pc = "create_rearm"
    /\ FormatsAnnounced(current_frame)
    /\ returned' = Return(CopiedFrame(wire), CreateResult(Unwrap(frame_state)),
                           frame_state)
    /\ wire' = Append(wire, returned')
    /\ new_buffer' = None
    /\ frame_state' = None
    /\ pc' = "ready"
    /\ UNCHANGED <<settings, dmabuf, outputs, current_frame, next_frame,
                   buffer_pool, delivered, poolvars, query, threads>>

\* -------------------------------------------------------------------------
\* Specification of a capture session
\* -------------------------------------------------------------------------

OutputEvents(i) ==
    {OutputEventOf("wl_output", "Name", OutputNames[i], 0, 0, 0, FALSE),
     OutputEventOf("wl_output", "Done", "", 0, 0, 0, FALSE)}

Next ==
    \/ \E output_name \in OutputNameSettings : SetProperty(output_name)
    \/ \E n \in 0..Len(OutputNames), has_dmabuf \in BOOLEAN : ChangeState(n, has_dmabuf)
    \/ \E i \in 1..Len(outputs) : \E event \in OutputEvents(i) :
          DispatchOutputEvent(i, event)
    \/ \E event \in FrameEvents(current_frame) : DispatchFrameEvent(event)
    \/ DispatchError
    \/ ConnectCapture
    \/ ConnectReturn
    \/ \E format \in VideoFormats, width \in Widths, height \in Heights,
          dma_heap_available \in BOOLEAN, align_ok \in BOOLEAN, parent_ok \in BOOLEAN :
          DecideAllocation(format, width, height, dma_heap_available, align_ok, parent_ok)
    \/ /\ IsSome(buffer_pool)
       /\ \E mem \in AllocMemory(Unwrap(buffer_pool)) \cup {NoMemory("Err")} :
             \E meta_ok \in BOOLEAN : CreateCopy(mem, meta_ok)
    \/ CreateRearm
    \/ CreateReturn

Spec == Init /\ [][Next]_vars

\* -------------------------------------------------------------------------
\* Specification of the frame event handler alone: it is run once on an
\* event for any frame object against any tracked request
\* -------------------------------------------------------------------------

\* the states a FrameInfo can be in
FrameInfos ==
    {[shm_formats |-> s, dmabuf_formats |-> d, done |-> b, state |-> t, flags |-> f] :
        s \in {<<>>} \cup {<<ShmFormatOf(e)>> : e \in {x \in BufferEvents : x.format # "Unknown"}},
        d \in {<<>>} \cup {<<DmabufFormatOf(e)>> : e \in {x \in LinuxDmabufEvents : x.format # "Unknown"}},
        b \in BOOLEAN,
        t \in {None, Some(Ready(0, 1, 0)), Some(Failed)},
        f \in {None, Some("YInvert")}}

FrameIds == 1..MaxFrames

\* the handler's inputs: a tracked request (or none), and an event on a
\* frame object
InitEvent ==
    /\ pc = "dispatch"
    /\ settings = [output_name |-> None]
    /\ dmabuf = FALSE
    /\ outputs = <<[OutputInfo EXCEPT !.name = OutputNames[1], !.done = TRUE]>>
    /\ current_frame \in {None} \cup
          {Some([frame |-> id, output |-> 1, info |-> info]) :
              id \in FrameIds, info \in FrameInfos}
    /\ next_frame = MaxFrames + 1
    /\ buffer_pool = None
    /\ new_buffer = None
    /\ frame_state = None
    /\ wire = <<>>
    /\ returned = Return(0, "", None)
    /\ delivered \in [proxy : FrameIds,
                      event : BufferEvents \cup LinuxDmabufEvents \cup OtherFrameEvents]
    /\ objects = <<>>
    /\ buffers = <<>>
    /\ last = NoCall
    /\ query = NoQuery
    /\ threads = IdleThreads

\* Dispatch<ZwlrScreencopyFrameV1>::event runs on the delivered event
HandleFrameEvent ==
    /\ pc = "dispatch"
    /\ LET r == FrameEvent(current_frame, delivered.proxy, delivered.event)
       IN  /\ current_frame' = r.value
           /\ pc' = IF r.panic THEN "panicked" ELSE "handled"
    /\ UNCHANGED <<settings, dmabuf, outputs, next_frame, buffer_pool,
                   new_buffer, frame_state, wire, returned, delivered, poolvars, query,
                   threads>>

NextEvent == HandleFrameEvent

SpecEvent == InitEvent /\ [][NextEvent]_vars

\* -------------------------------------------------------------------------
\* Specification of the pool decide_allocation installs: its buffers are
\* allocated, copied, dropped and freed
\* -------------------------------------------------------------------------

\* everything but the pool and the request decide_allocation looks at
sessionvars == <<settings, dmabuf, outputs, current_frame, next_frame,
                 new_buffer, frame_state, wire, returned, delivered, query>>

PoolWidths == {2, 40}

PoolDrmCodes == {"Bgrx8888", "Xrgb8888"}

\* requests whose formats are announced, with at most one candidate a list
PoolFrameInfos ==
    {[FrameInfo EXCEPT !.shm_formats = s, !.dmabuf_formats = d, !.done = TRUE] :
        s \in {<<>>} \cup
              {<<ShmFormatOf(Event("Buffer", "Xrgb8888", w, h, 4 * w, "", 0, 0, 0))>> :
                  w \in PoolWidths, h \in Heights},
        d \in {<<>>} \cup
              {<<DmabufFormatOf(Event("LinuxDmabuf", c, w, h, 0, "", 0, 0, 0))>> :
                  c \in PoolDrmCodes, w \in PoolWidths, h \in Heights}}

\* a session that connect_to_wl_display has stored, before decide_allocation
InitPool ==
    /\ pc = "ready"
    /\ settings = [output_name |-> None]
    /\ dmabuf \in BOOLEAN
    /\ outputs = <<[OutputInfo EXCEPT !.name = OutputNames[1], !.done = TRUE]>>
    /\ current_frame \in {Some([frame |-> 1, output |-> 1, info |-> info]) :
                              info \in PoolFrameInfos}
    /\ next_frame = 2
    /\ buffer_pool = None
    /\ new_buffer = None
    /\ frame_state = None
    /\ wire = <<CaptureOutput(1)>>
    /\ returned = Return(0, "", None)
    /\ delivered = NoEvent
    /\ objects = <<>>
    /\ buffers = <<>>
    /\ last = NoCall
    /\ query = NoQuery
    /\ threads = IdleThreads

\* a buffer alloc_buffer returned: its wl_buffer parameters, the size of its
\* memory and of the region behind it, the size of the layout it was
\* allocated for, and the object its meta holds
PoolBuffer(buffer, mem, layout, wl_buffer) ==
    [buffer |-> buffer, size |-> mem.size, real |-> mem.real, layout |-> layout,
     wl_buffer |-> wl_buffer, pooled |-> TRUE, freed |-> FALSE]

\* the pool allocates a buffer (the parent pool calls alloc_buffer)
AllocBuffer(mem, meta_ok) ==
    /\ pc = "ready"
    /\ IsSome(buffer_pool)
    /\ Len(buffers) < MaxBuffers
    /\ Len(objects) + 2 <= 2 * MaxBuffers
    /\ LET acquired == alloc_buffer(Unwrap(buffer_pool), mem, meta_ok)
       IN  IF acquired.panic
           THEN /\ pc' = "panicked"
                /\ UNCHANGED <<objects, buffers, last>>
           ELSE /\ objects' = objects \o acquired.objects
                /\ buffers' =
                      IF acquired.buffer = None THEN buffers
                      ELSE Append(buffers,
                                  PoolBuffer(Unwrap(acquired.buffer), mem,
                                             Unwrap(Unwrap(buffer_pool).video_info).size,
                                             Len(objects) + Len(acquired.objects)))
                /\ last' = Call("alloc_buffer", None, acquired.buffer # None, None)
                /\ UNCHANGED pc
    /\ UNCHANGED <<sessionvars, buffer_pool, threads>>

\* dropping the proxy in the meta also sends destroy
custom_meta_free_Destroys(objs, wl_buffer) ==
    [objs EXCEPT ![wl_buffer].destroyed = @ + 1]

\* custom_meta_free: the WlBuffer proxy in the meta is dropped, which sends
\* nothing
custom_meta_free(objs, wl_buffer) == objs

\* WaylandBufferPool::free_buffer: destroy on the wl_buffer of the meta
free_buffer(objs, wl_buffer) ==
    [objs EXCEPT ![wl_buffer].destroyed = @ + 1]

\* the pool frees one of its buffers: free_buffer, then the buffer is
\* dropped with its meta
FreeBuffer(i) ==
    /\ pc = "ready"
    /\ i \in 1..Len(buffers)
    /\ buffers[i].pooled
    /\ ~buffers[i].freed
    /\ objects' = custom_meta_free(free_buffer(objects, buffers[i].wl_buffer),
                                   buffers[i].wl_buffer)
    /\ buffers' = [buffers EXCEPT ![i].freed = TRUE]
    /\ last' = Call("free_buffer", None, TRUE, None)
    /\ UNCHANGED <<pc, sessionvars, buffer_pool, threads>>

\* a buffer is copied: custom_meta_transform adds a meta with a clone of the
\* same WlBuffer to the copy, which no pool owns
CopyBuffer(i) ==
    /\ pc = "ready"
    /\ i \in 1..Len(buffers)
    /\ ~buffers[i].freed
    /\ Len(buffers) < MaxBuffers
    /\ buffers' = Append(buffers, [buffers[i] EXCEPT !.pooled = FALSE])
    /\ UNCHANGED <<pc, sessionvars, buffer_pool, objects, last, threads>>

\* the last reference to a copy is dropped: custom_meta_free runs
DropBuffer(i) ==
    /\ pc = "ready"
    /\ i \in 1..Len(buffers)
    /\ ~buffers[i].pooled
    /\ ~buffers[i].freed
    /\ objects' = custom_meta_free(objects, buffers[i].wl_buffer)
    /\ buffers' = [buffers EXCEPT ![i].freed = TRUE]
    /\ UNCHANGED <<pc, sessionvars, buffer_pool, last, threads>>

NextPool ==
    \/ \E format \in VideoFormats, width \in PoolWidths, height \in Heights,
          dma_heap_available \in BOOLEAN, align_ok \in BOOLEAN, parent_ok \in BOOLEAN :
          /\ buffers = <<>>
          /\ objects = <<>>
          /\ DecideAllocation(format, width, height, dma_heap_available, align_ok, parent_ok)
    \/ /\ IsSome(buffer_pool)
       /\ \E mem \in AllocMemory(Unwrap(buffer_pool)) : \E meta_ok \in BOOLEAN :
             AllocBuffer(mem, meta_ok)
    \/ \E i \in 1..Len(buffers) : FreeBuffer(i)
    \/ \E i \in 1..Len(buffers) : CopyBuffer(i)
    \/ \E i \in 1..Len(buffers) : DropBuffer(i)

SpecPool == InitPool /\ [][NextPool]_vars

\* -------------------------------------------------------------------------
\* Specification of set_config alone: it is called once, with any config, on
\* a pool that is new or already committed
\* -------------------------------------------------------------------------

\* caps of a config: two video layouts and caps that are no raw video
ConfigCaps == {Caps("Bgrx", 640, 480), Caps("Nv12", 2, 2), Caps("Encoded", 2, 1)}

\* requested sizes: below, at and above 640 * 480 * 4
ConfigSizes == {100, 1228800, 2000000}

PoolConfigs ==
    {PoolConfig(params, allocator, video_meta, video_alignment, video_align) :
        params \in {None} \cup
                   {Some(ConfigParams(caps, size, 1, 1)) :
                       caps \in {None} \cup {Some(c) : c \in ConfigCaps},
                       size \in ConfigSizes},
        allocator \in {None,
                       Some(ConfigAllocator(None, None)),
                       Some(ConfigAllocator(Some("Memfd"), None)),
                       Some(ConfigAllocator(Some("Gbm"), Some(15))),
                       Some(ConfigAllocator(Some("Gbm"), Some(127)))},
        video_meta \in BOOLEAN,
        video_alignment \in BOOLEAN,
        video_align \in {None, Some(<<31, 0, 0, 0>>)}}

\* configs a pool was committed with before the call that is looked at
PriorConfigs ==
    {PoolConfig(Some(ConfigParams(Some(Caps("Bgrx", 2, 1)), 8, 1, 1)),
                Some(ConfigAllocator(Some("Memfd"), None)), FALSE, FALSE, None),
     PoolConfig(Some(ConfigParams(Some(Caps("Bgrx", 2, 1)), 8, 1, 1)),
                Some(ConfigAllocator(Some("Gbm"), Some(127))), TRUE, TRUE,
                Some(<<31, 0, 0, 0>>))}

\* a pool WaylandBufferPool::new has built, not configured yet or committed
\* with one of the prior configs
InitConfig ==
    /\ pc = "pool"
    /\ settings = [output_name |-> None]
    /\ dmabuf \in BOOLEAN
    /\ outputs = <<>>
    /\ current_frame = None
    /\ next_frame = 1
    /\ buffer_pool \in {Some(PoolState(dmabuf))} \cup
                        {Some(set_config(PoolState(dmabuf), config, TRUE, TRUE).state) :
                            config \in PriorConfigs}
    /\ new_buffer = None
    /\ frame_state = None
    /\ wire = <<>>
    /\ returned = Return(0, "", None)
    /\ delivered = NoEvent
    /\ objects = <<>>
    /\ buffers = <<>>
    /\ last = NoCall
    /\ query = NoQuery
    /\ threads = IdleThreads

\* set_config is called on the pool
SetConfig(config, align_ok, parent_ok) ==
    /\ pc = "pool"
    /\ LET configured == set_config(Unwrap(buffer_pool), config, align_ok, parent_ok)
       IN  /\ buffer_pool' = Some(configured.state)
           /\ last' = Call("set_config", Some(config), configured.ok, buffer_pool)
    /\ pc' = "configured"
    /\ UNCHANGED <<sessionvars, objects, buffers, threads>>

NextConfig ==
    \E config \in PoolConfigs, align_ok \in BOOLEAN, parent_ok \in BOOLEAN :
        SetConfig(config, align_ok, parent_ok)

SpecConfig == InitConfig /\ [][NextConfig]_vars

\* -------------------------------------------------------------------------
\* Specification of FormatTranslation alone: one of the four functions is
\* called on a code, and its answer is given to the function of the other
\* direction
\* -------------------------------------------------------------------------

\* wl_shm::Format values: the eight of the tables and four others
AllShmFormats ==
    {"Abgr8888", "Argb8888", "Bgra8888", "Bgrx8888", "Rgba8888", "Rgbx8888",
     "Xbgr8888", "Xrgb8888", "Rgb565", "Argb2101010", "Nv12", "Yuyv"}

\* DrmFourcc values: the eight of the tables and four others
AllDrmFourccs ==
    {"Abgr8888", "Argb8888", "Bgra8888", "Bgrx8888", "Rgba8888", "Rgbx8888",
     "Xbgr8888", "Xrgb8888", "Rgb565", "Argb2101010", "Nv12", "Yuyv"}

\* VideoFormat values: the eight of the tables and four others
AllVideoFormats ==
    {"Abgr", "Argb", "Bgra", "Bgrx", "Rgba", "Rgbx", "Xbgr", "Xrgb",
     "Rgb16", "Nv12", "Yuy2", "Encoded"}

\* the four functions of utils.rs and the type of their argument
Translations ==
    {<<"gst_video_format_from_wl_shm", c>> : c \in AllShmFormats}
    \cup {<<"gst_video_format_from_drm_fourcc", c>> : c \in AllDrmFourccs}
    \cup {<<"gst_video_format_to_wl_shm", c>> : c \in AllVideoFormats}
    \cup {<<"gst_video_format_to_drm_fourcc", c>> : c \in AllVideoFormats}

\* the call of one of the four functions
Translation(op, arg) ==
    CASE op = "gst_video_format_from_wl_shm" -> gst_video_format_from_wl_shm(arg)
      [] op = "gst_video_format_to_wl_shm" -> gst_video_format_to_wl_shm(arg)
      [] op = "gst_video_format_from_drm_fourcc" -> gst_video_format_from_drm_fourcc(arg)
      [] op = "gst_video_format_to_drm_fourcc" -> gst_video_format_to_drm_fourcc(arg)

\* the function of the same vocabulary in the other direction
Inverse(op) ==
    CASE op = "gst_video_format_from_wl_shm" -> "gst_video_format_to_wl_shm"
      [] op = "gst_video_format_to_wl_shm" -> "gst_video_format_from_wl_shm"
      [] op = "gst_video_format_from_drm_fourcc" -> "gst_video_format_to_drm_fourcc"
      [] op = "gst_video_format_to_drm_fourcc" -> "gst_video_format_from_drm_fourcc"

\* a function and the code it is about to be called on
InitFormat ==
    /\ pc = "translate"
    /\ settings = [output_name |-> None]
    /\ dmabuf = FALSE
    /\ outputs = <<>>
    /\ current_frame = None
    /\ next_frame = 1
    /\ buffer_pool = None
    /\ new_buffer = None
    /\ frame_state = None
    /\ wire = <<>>
    /\ returned = Return(0, "", None)
    /\ delivered = NoEvent
    /\ objects = <<>>
    /\ buffers = <<>>
    /\ last = NoCall
    /\ query \in {Query(t[1], Some(t[2]), None, None) : t \in Translations}
    /\ threads = IdleThreads

\* the function is called
Translate ==
    /\ pc = "translate"
    /\ query' = [query EXCEPT !.result = Translation(query.op, Unwrap(query.arg))]
    /\ pc' = "translated"
    /\ UNCHANGED <<settings, dmabuf, outputs, current_frame, next_frame, buffer_pool,
                   new_buffer, frame_state, wire, returned, delivered, poolvars,
                   threads>>

\* the answer, when there is one, is translated back
TranslateBack ==
    /\ pc = "translated"
    /\ IsSome(query.result)
    /\ query' = Query(Inverse(query.op), query.result,
                      Translation(Inverse(query.op), Unwrap(query.result)),
                      query.arg)
    /\ pc' = "translated_back"
    /\ UNCHANGED <<settings, dmabuf, outputs, current_frame, next_frame, buffer_pool,
                   new_buffer, frame_state, wire, returned, delivered, poolvars,
                   threads>>

NextFormat == Translate \/ TranslateBack

SpecFormat == InitFormat /\ [][NextFormat]_vars

\* -------------------------------------------------------------------------
\* Specification of output discovery and the capability query:
\* connect_to_wl_display with every event an output can send, the first
\* request's candidates, and caps() called at any time
\* -------------------------------------------------------------------------

\* codes a compositor advertises: one the tables translate and one they
\* do not
OutputShmCodes == {"Xrgb8888", "Rgb565"}

OutputDrmCodes == {"Bgrx8888", "Nv12"}

\* events of output i and of its zxdg_output_v1
DiscoveryEvents(i) ==
    {OutputEventOf("wl_output", "Mode", "", 2, 1, 60000, TRUE),
     OutputEventOf("wl_output", "Mode", "", 4, 1, 30000, FALSE),
     OutputEventOf("wl_output", "Geometry", "", 0, 0, 0, FALSE),
     OutputEventOf("wl_output", "Name", OutputNames[i], 0, 0, 0, FALSE),
     OutputEventOf("wl_output", "Description", "monitor", 0, 0, 0, FALSE),
     OutputEventOf("wl_output", "Done", "", 0, 0, 0, FALSE),
     OutputEventOf("xdg_output", "LogicalSize", "", 0, 0, 0, FALSE),
     OutputEventOf("xdg_output", "Name", OutputNames[i], 0, 0, 0, FALSE),
     OutputEventOf("xdg_output", "Description", "monitor", 0, 0, 0, FALSE),
     OutputEventOf("xdg_output", "Done", "", 0, 0, 0, FALSE)}

\* events of the first request: its candidates, while the list they go to
\* has room, and buffer_done
CandidateEvents(cf) ==
    (IF IsSome(cf) /\ Len(Unwrap(cf).info.shm_formats) < MaxFormats
        THEN {Event("Buffer", f, w, h, 4 * w, "", 0, 0, 0) :
                 f \in OutputShmCodes, w \in Widths, h \in Heights}
        ELSE {})
    \cup
    (IF IsSome(cf) /\ Len(Unwrap(cf).info.dmabuf_formats) < MaxFormats
        THEN {Event("LinuxDmabuf", f, w, h, 0, "", 0, 0, 0) :
                 f \in OutputDrmCodes, w \in Widths, h \in Heights}
        ELSE {})
    \cup {Event("BufferDone", "", 0, 0, 0, "", 0, 0, 0)}

NextOutput ==
    \/ \E output_name \in OutputNameSettings : SetProperty(output_name)
    \/ \E n \in 1..Len(OutputNames) : ChangeState(n, TRUE)
    \/ \E i \in 1..Len(outputs) : \E event \in DiscoveryEvents(i) :
          DispatchOutputEvent(i, event)
    \/ \E event \in CandidateEvents(current_frame) : DispatchFrameEvent(event)
    \/ ConnectCapture
    \/ ConnectReturn
    \/ QueryCaps

SpecOutput == Init /\ [][NextOutput]_vars

\* -------------------------------------------------------------------------
\* Specification of the output handlers on sequences of events: one output
\* registered by connect_to_wl_display from a wl_output global of version 3
\* (version < 4, so it has a zxdg_output_v1 and wl_output sends no name),
\* and the events delivered for it so far
\* -------------------------------------------------------------------------

\* longest sequence of output events delivered
MaxEvents == 3

\* events of a wl_output of version 3 and of its zxdg_output_v1 of version 3,
\* which sends no done of its own: the wl_output sends done when it is bound
\* and again after the properties of the zxdg_output_v1
XdgDiscoveryEvents ==
    {OutputEventOf("wl_output", "Mode", "", 2, 1, 60000, TRUE),
     OutputEventOf("wl_output", "Mode", "", 4, 2, 30000, TRUE),
     OutputEventOf("wl_output", "Mode", "", 8, 4, 75000, FALSE),
     OutputEventOf("wl_output", "Geometry", "", 0, 0, 0, FALSE),
     OutputEventOf("wl_output", "Done", "", 0, 0, 0, FALSE),
     OutputEventOf("xdg_output", "LogicalSize", "", 0, 0, 0, FALSE),
     OutputEventOf("xdg_output", "Name", OutputNames[1], 0, 0, 0, FALSE),
     OutputEventOf("xdg_output", "Description", "monitor", 0, 0, 0, FALSE)}

\* the output was pushed with OutputInfo::default(); nothing was delivered
InitDiscovery ==
    /\ pc = "connect_outputs"
    /\ settings \in [output_name : OutputNameSettings]
    /\ dmabuf = FALSE
    /\ outputs = <<OutputInfo>>
    /\ current_frame = None
    /\ next_frame = 1
    /\ buffer_pool = None
    /\ new_buffer = None
    /\ frame_state = None
    /\ wire = <<>>
    /\ returned = Return(0, "", None)
    /\ delivered = <<>>
    /\ objects = <<>>
    /\ buffers = <<>>
    /\ last = NoCall
    /\ query = NoQuery
    /\ threads = IdleThreads

\* blocking_dispatch hands the next event of the output to its handler
DeliverOutputEvent(event) ==
    /\ pc = "connect_outputs"
    /\ Len(delivered) < MaxEvents
    /\ delivered' = Append(delivered, event)
    /\ outputs' = [outputs EXCEPT ![1] = OutputEvent(@, event)]
    /\ UNCHANGED <<pc, settings, dmabuf, current_frame, next_frame, buffer_pool,
                   new_buffer, frame_state, wire, returned, poolvars, query,
                   threads>>

NextDiscovery == \E event \in XdgDiscoveryEvents : DeliverOutputEvent(event)

SpecDiscovery == InitDiscovery /\ [][NextDiscovery]_vars

\* -------------------------------------------------------------------------
\* Specification of the element's life cycle: NULL -> READY connects,
\* READY -> NULL goes to the parent class, and the element may be brought
\* to READY again
\* -------------------------------------------------------------------------

\* change_state for a transition other than NullToReady (here the way back
\* to NULL): parent_change_state and nothing else; the bound keeps the
\* number of sessions finite
ChangeStateToNull ==
    /\ pc = "ready"
    /\ next_frame <= MaxFrames
    /\ pc' = "null"
    /\ UNCHANGED <<settings, dmabuf, outputs, current_frame, next_frame,
                   buffer_pool, new_buffer, frame_state, wire, returned,
                   delivered, poolvars, query, threads>>

NextLifecycle ==
    \/ \E n \in 1..Len(OutputNames) : ChangeState(n, TRUE)
    \/ \E i \in 1..Len(outputs) : \E event \in OutputEvents(i) :
          DispatchOutputEvent(i, event)
    \/ \E event \in CandidateEvents(current_frame) : DispatchFrameEvent(event)
    \/ ConnectCapture
    \/ ConnectReturn
    \/ ChangeStateToNull

SpecLifecycle == Init /\ [][NextLifecycle]_vars

\* -------------------------------------------------------------------------
\* Specification of the frame handler on sequences of events: the first
\* request of a session, in the second loop of connect_to_wl_display, and
\* the events delivered for it so far
\* -------------------------------------------------------------------------

\* events of the request while its formats are advertised: candidates with
\* a known and with an unknown code, of two sizes, damage and buffer_done
AccumulationEvents ==
    BufferEvents \cup LinuxDmabufEvents
    \cup {Event("Buffer", "Xrgb8888", 4, 1, 16, "", 0, 0, 0),
          Event("Damage", "", 0, 0, 0, "", 0, 0, 0),
          Event("BufferDone", "", 0, 0, 0, "", 0, 0, 0)}

\* capture_output was sent for the first request; nothing was delivered
InitAccumulation ==
    /\ pc = "connect_frame"
    /\ settings \in [output_name : OutputNameSettings]
    /\ dmabuf \in BOOLEAN
    /\ outputs = <<[OutputInfo EXCEPT !.name = OutputNames[1], !.done = TRUE]>>
    /\ current_frame = Some(NewFrame(1, 1))
    /\ next_frame = 2
    /\ buffer_pool = None
    /\ new_buffer = None
    /\ frame_state = None
    /\ wire = <<CaptureOutput(1)>>
    /\ returned = Return(0, "", None)
    /\ delivered = <<>>
    /\ objects = <<>>
    /\ buffers = <<>>
    /\ last = NoCall
    /\ query = NoQuery
    /\ threads = IdleThreads

\* blocking_dispatch hands the next event of the request to its handler
DeliverFrameEvent(event) ==
    /\ pc = "connect_frame"
    /\ Len(delivered) < MaxEvents
    /\ delivered' = Append(delivered, event)
    /\ LET r == FrameEvent(current_frame, Unwrap(current_frame).frame, event)
       IN  /\ current_frame' = r.value
           /\ pc' = IF r.panic THEN "panicked" ELSE pc
    /\ UNCHANGED <<settings, dmabuf, outputs, next_frame, buffer_pool,
                   new_buffer, frame_state, wire, returned, poolvars, query,
                   threads>>

NextAccumulation == \E event \in AccumulationEvents : DeliverFrameEvent(event)

SpecAccumulation == InitAccumulation /\ [][NextAccumulation]_vars

\* -------------------------------------------------------------------------
\* Specification of create() against a compositor that answers: the stored
\* session of InitPool, decide_allocation, and calls of create() whose two
\* loops are served by a compositor that keeps its promises
\* -------------------------------------------------------------------------

\* the compositor has told the tracked request something that ends its
\* negotiation: buffer_done, or a terminal signal
Answered(cf) ==
    IsSome(cf) /\ (Unwrap(cf).info.done \/ IsSome(Unwrap(cf).info.state))

\* the compositor delivers the terminal signal of the copied request
\* (first loop of create())
CompositorTerminal ==
    /\ pc = "create_copy"
    /\ ~TerminalReached(current_frame)
    /\ \E event \in {Event("Ready", "", 0, 0, 0, "", 0, 1, 0),
                      Event("Failed", "", 0, 0, 0, "", 0, 0, 0)} :
          DispatchFrameEvent(event)

\* the compositor answers the re-armed request with buffer_done or with
\* failed (second loop of create())
CompositorAnswersRearmed ==
    /\ pc = "create_rearm"
    /\ ~Answered(current_frame)
    /\ \E event \in {Event("BufferDone", "", 0, 0, 0, "", 0, 0, 0),
                      Event("Failed", "", 0, 0, 0, "", 0, 0, 0)} :
          DispatchFrameEvent(event)

NextCreate ==
    \/ \E format \in VideoFormats, width \in Widths, height \in Heights :
          DecideAllocation(format, width, height, FALSE, TRUE, TRUE)
    \/ /\ IsSome(buffer_pool)
       /\ \E mem \in AllocMemory(Unwrap(buffer_pool)) \cup {NoMemory("Err")} :
             CreateCopy(mem, TRUE)
    \/ CompositorTerminal
    \/ CompositorAnswersRearmed
    \/ /\ pc \in {"create_copy", "create_rearm"}
       /\ \E event \in CandidateEvents(current_frame) \cup
                      {Event("Ready", "", 0, 0, 0, "", 0, 1, 0),
                       Event("Failed", "", 0, 0, 0, "", 0, 0, 0)} :
             DispatchFrameEvent(event)
    \/ CreateRearm
    \/ CreateReturn

\* the streaming thread runs when a loop of create() can end, and the
\* compositor delivers what the request in each loop is owed
SpecCreate ==
    /\ InitPool
    /\ [][NextCreate]_vars
    /\ WF_vars(CreateRearm)
    /\ WF_vars(CreateReturn)
    /\ WF_vars(CompositorTerminal)
    /\ WF_vars(CompositorAnswersRearmed)

\* -------------------------------------------------------------------------
\* Specification of the mutexes of WlrScreencopySrc: the calls of the three
\* threads, one lock() at a time. pc is the state of the element ("null" or
\* "ready"), current_frame is the frame inside the stored wayland_state
\* -------------------------------------------------------------------------

\* no thread holds the guard of mutex m
Free(m) == \A t \in Threads : m \notin threads[t].held

\* the mutex whose lock() a thread is inside at a position, "" if none
Wanted(at) ==
    CASE at \in {"change_state_settings", "caps_settings", "create_settings",
                 "property_settings"} -> "settings"
      [] at \in {"connect_store_state", "caps_state", "decide_allocation_state",
                 "create_state"} -> "wayland_state"
      [] at = "connect_store_connection" -> "connection"
      [] at \in {"connect_store_queue", "create_queue"} -> "event_queue"
      [] OTHER -> ""

\* the guards a thread still holds after the statement of its lock(): the
\* guards of lines 421-423 are temporaries, every other one is bound to a
\* local that lives until the call returns
Kept(at) ==
    IF at \in {"connect_store_state", "connect_store_connection",
               "connect_store_queue"}
    THEN {} ELSE {Wanted(at)}

\* where a thread goes when its lock() returns; caps takes the settings
\* only when there is a stored frame
After(at, cf) ==
    CASE at = "change_state_settings" -> "connect_dispatch"
      [] at = "connect_store_state" -> "connect_store_connection"
      [] at = "connect_store_connection" -> "connect_store_queue"
      [] at = "connect_store_queue" -> "change_state_return"
      [] at = "caps_state" -> IF IsSome(cf) THEN "caps_settings" ELSE "caps_return"
      [] at = "caps_settings" -> "caps_return"
      [] at = "decide_allocation_state" -> "decide_allocation_return"
      [] at = "create_queue" -> "create_state"
      [] at = "create_state" -> "create_settings"
      [] at = "create_settings" -> "create_dispatch"
      [] at = "property_settings" -> "property_return"

\* positions inside a blocking_dispatch loop, which ends only when the
\* compositor sends what the loop waits for
InDispatch == {"connect_dispatch", "create_dispatch"}

\* a thread enters a call: change_state(NullToReady) in NULL, create() and
\* decide_allocation while the element is READY and no state change runs,
\* caps() and the property accessors at any time
EnterCall(t, at) ==
    /\ \/ t = "state_change" /\ at = "change_state_settings" /\ pc = "null"
       \/ t = "streaming" /\ at \in {"create_queue", "decide_allocation_state"}
            /\ pc = "ready" /\ threads["state_change"].at = "idle"
       \/ t = "streaming" /\ at = "caps_state"
       \/ t = "control" /\ at = "property_settings"
    /\ threads[t].at = "idle"
    /\ threads' = [threads EXCEPT ![t].at = at]
    /\ UNCHANGED <<pc, settings, dmabuf, outputs, current_frame, next_frame,
                   buffer_pool, new_buffer, frame_state, wire, returned,
                   delivered, poolvars, query>>

\* lock() of thread t returns: the mutex is free and the thread goes on
\* with its guard; line 421 stores the session connect_to_wl_display made
LockReturns(t) ==
    /\ Wanted(threads[t].at) # ""
    /\ Free(Wanted(threads[t].at))
    /\ threads' = [threads EXCEPT
                     ![t] = [at |-> After(@.at, current_frame),
                             held |-> @.held \cup Kept(@.at)]]
    /\ current_frame' =
          IF threads[t].at = "connect_store_state"
          THEN Some([NewFrame(1, 1) EXCEPT !.info.done = TRUE])
          ELSE current_frame
    /\ UNCHANGED <<pc, settings, dmabuf, outputs, next_frame, buffer_pool,
                   new_buffer, frame_state, wire, returned, delivered, poolvars,
                   query>>

\* the compositor has sent what the blocking_dispatch loops of the call
\* wait for: connect_to_wl_display goes on to store the session, create()
\* to its return
Dispatched(t) ==
    /\ threads[t].at \in InDispatch
    /\ threads' = [threads EXCEPT ![t].at =
                     IF @ = "connect_dispatch" THEN "connect_store_state"
                     ELSE "create_return"]
    /\ UNCHANGED <<pc, settings, dmabuf, outputs, current_frame, next_frame,
                   buffer_pool, new_buffer, frame_state, wire, returned,
                   delivered, poolvars, query>>

\* the call returns and its guards are dropped; after change_state the
\* element is READY
CallReturns(t) ==
    /\ threads[t].at \in {"change_state_return", "caps_return", "create_return",
                          "decide_allocation_return", "property_return"}
    /\ threads' = [threads EXCEPT ![t] = [at |-> "idle", held |-> {}]]
    /\ pc' = IF threads[t].at = "change_state_return" THEN "ready" ELSE pc
    /\ UNCHANGED <<settings, dmabuf, outputs, current_frame, next_frame,
                   buffer_pool, new_buffer, frame_state, wire, returned,
                   delivered, poolvars, query>>

NextThreads ==
    \/ \E t \in Threads :
          \E at \in {"change_state_settings", "create_queue",
                     "decide_allocation_state", "caps_state", "property_settings"} :
             EnterCall(t, at)
    \/ \E t \in Threads : LockReturns(t)
    \/ \E t \in Threads : Dispatched(t)
    \/ \E t \in Threads : CallReturns(t)
    \/ /\ \A t \in Threads :
             threads[t].at \in {"idle", "caps_state", "caps_settings", "caps_return",
                                "property_settings", "property_return"}
       /\ ChangeStateToNull

SpecThreads == Init /\ [][NextThreads]_vars

\* -------------------------------------------------------------------------
\* Properties
\* -------------------------------------------------------------------------

\* frame objects requested and not destroyed
InFlight(w) ==
    {w[i].frame : i \in Entries(w, "capture_output")}
        \ {w[i].frame : i \in Entries(w, "destroy")}

\* the step appended a request or return `op` as the last entry of the wire
Appended(op) ==
    /\ Len(wire') > Len(wire)
    /\ wire'[Len(wire')].op = op

LastEntry(w) == w[Len(w)]

\* C1: at most one frame request is tracked and in flight at any time:
\* the frame objects requested and not yet destroyed are exactly the request
\* held in current_frame, and every capture_output but the first of the
\* session directly follows the destroy of the previous request.
C1_SingleRequestInFlight ==
    /\ Cardinality(InFlight(wire)) <= 1
    /\ InFlight(wire) = IF IsSome(current_frame)
                        THEN {Unwrap(current_frame).frame} ELSE {}
    /\ \A i \in Entries(wire, "capture_output") :
          \/ i = 1
          \/ wire[i - 1] = Destroy(wire[i].frame - 1)

\* a second request has been issued by create() while the session runs
C1_Witness ==
    /\ pc = "create_rearm"
    /\ Cardinality(Entries(wire, "capture_output")) >= 2

\* C2: copy is sent on a frame request only after that request received
\* buffer_done: whenever a step sends copy, the request it is sent on is the
\* tracked one and its done flag is set.
C2_CopyOnlyAfterBufferDone ==
    [][Appended("copy") =>
          /\ IsSome(current_frame)
          /\ LastEntry(wire').frame = Unwrap(current_frame).frame
          /\ Unwrap(current_frame).info.done]_vars

\* copy has been sent on a request that create() re-armed
C2_Witness ==
    /\ pc = "create_copy"
    /\ LastEntry(wire).op = "copy"
    /\ LastEntry(wire).frame >= 2

\* C3: the dispatch loops do not return mid-negotiation: the thread comes
\* back to the caller (from connect_to_wl_display or from create) only with
\* a tracked request whose done flag is set; create() takes the copied
\* request away only once it has a terminal state, and what it returns after
\* a copy carries that terminal state.
C3_NoReturnMidNegotiation ==
    [][/\ (pc # "ready" /\ pc' = "ready") =>
              IsSome(current_frame') /\ Unwrap(current_frame').info.done
       /\ (pc = "create_copy" /\ wire' # wire) =>
              IsSome(current_frame) /\ IsSome(Unwrap(current_frame).info.state)
       /\ (pc = "create_copy" /\ pc' # "panicked" /\ pc' # pc) =>
              IsSome(current_frame) /\ IsSome(Unwrap(current_frame).info.state)
       /\ (pc = "create_rearm" /\ pc' = "ready") =>
              /\ Appended("return")
              /\ IsSome(LastEntry(wire').state)]_vars

\* create() has returned after a copy
C3_Witness ==
    /\ pc = "ready"
    /\ Len(wire) > 0
    /\ LastEntry(wire).op = "return"
    /\ LastEntry(wire).frame # 0

\* C4: whenever create() returns after its copy, with Ready or with Failed,
\* the copied request has been destroyed and a later request is tracked,
\* issued for the output the settings select (the output of that name, or
\* the first output when no name is set), with its formats announced.
C4_RearmedOnReturn ==
    [][(Appended("return") /\ LastEntry(wire').frame # 0) =>
          LET copied == LastEntry(wire').frame
              rearmed == Unwrap(current_frame')
          IN  /\ \E i \in Entries(wire', "destroy") : wire'[i].frame = copied
              /\ IsSome(current_frame')
              /\ rearmed.frame > copied
              /\ \E i \in Entries(wire', "capture_output") :
                    /\ wire'[i].frame = rearmed.frame
                    /\ \E j \in Entries(wire', "destroy") :
                          j < i /\ wire'[j].frame = copied
              /\ rearmed.output \in 1..Len(outputs')
              /\ IF IsSome(settings'.output_name)
                 THEN outputs'[rearmed.output].name = Unwrap(settings'.output_name)
                 ELSE rearmed.output = 1
              /\ rearmed.info.done]_vars

\* create() returned the flow error of a Failed frame, the next request is
\* tracked and targets a named output
C4_Witness ==
    /\ pc = "ready"
    /\ Len(wire) > 0
    /\ LastEntry(wire).op = "return"
    /\ LastEntry(wire).state = Some(Failed)
    /\ IsSome(settings.output_name)
    /\ IsSome(current_frame)

\* the terminal state a return of create() carries is Failed / is Ready
IsFailed(state) == IsSome(state) /\ Unwrap(state).tag = "Failed"

IsReady(state) == IsSome(state) /\ Unwrap(state).tag = "Ready"

\* C5 (as stated): create() returns a flow error exactly when the copied
\* frame's terminal state is Failed and the buffer exactly when it is Ready.
C5_ErrorExactlyWhenFailed ==
    /\ returned.result = "Err" <=> IsFailed(returned.state)
    /\ returned.result = "Ok" <=> IsReady(returned.state)

\* C5 (amended): a create() call that sent its copy returns a flow error
\* exactly when the copied frame's terminal state is Failed and the buffer
\* exactly when it is Ready; a call that could not acquire a buffer returns
\* a flow error before any copy, without a terminal state. After either
\* error the tracked request is still there, in flight, with its formats
\* announced, so that the next create() can copy on it.
C5_ErrorAfterCopyExactlyWhenFailed ==
    /\ \A i \in Entries(wire, "return") :
          /\ wire[i].frame # 0
          /\ wire[i].result = "Err" <=> IsFailed(wire[i].state)
          /\ wire[i].result = "Ok" <=> IsReady(wire[i].state)
    /\ returned.frame # 0 =>
          /\ returned.result = "Err" <=> IsFailed(returned.state)
          /\ returned.result = "Ok" <=> IsReady(returned.state)
    /\ (returned.frame = 0 /\ returned.result # "") =>
          returned.result = "Err" /\ returned.state = None
    /\ (pc = "ready" /\ returned.result = "Err") =>
          /\ IsSome(current_frame)
          /\ Unwrap(current_frame).info.done
          /\ Unwrap(current_frame).frame \in InFlight(wire)

\* a capture completed (Ready) in a create() that followed one whose frame
\* Failed
C5_Witness ==
    /\ pc = "ready"
    /\ returned.result = "Ok"
    /\ returned.frame # 0
    /\ \E i \in Entries(wire, "return") :
          /\ wire[i].result = "Err"
          /\ IsFailed(wire[i].state)
          /\ wire[i].frame < returned.frame

\* the step leaves the same frame request tracked
SameRequest ==
    /\ IsSome(current_frame)
    /\ IsSome(current_frame')
    /\ Unwrap(current_frame').frame = Unwrap(current_frame).frame

\* C6: the terminal state of a frame request is set once: after it is Ready
\* or Failed, no later ready or failed event for the same request changes it.
C6_TerminalSetOnce ==
    [][(SameRequest /\ IsSome(Unwrap(current_frame).info.state)) =>
          Unwrap(current_frame').info.state = Unwrap(current_frame).info.state]_vars

\* C7: a frame request is destroyed at most once, nothing is sent on it
\* after its destroy, every request create() copied into has been destroyed
\* exactly once when create() returns, and every earlier request has been
\* destroyed before a capture_output creates the next one.
C7_DestroyedOnceBeforeNext ==
    /\ \A i, j \in Entries(wire, "destroy") :
          wire[i].frame = wire[j].frame => i = j
    /\ \A i \in Entries(wire, "destroy") :
          \A j \in (i + 1)..Len(wire) :
             wire[j].op # "return" => wire[j].frame # wire[i].frame
    /\ \A i \in Entries(wire, "return") :
          Cardinality({j \in Entries(wire, "destroy") :
                          j < i /\ wire[j].frame = wire[i].frame}) = 1
    /\ \A i \in Entries(wire, "capture_output") :
          \A f \in 1..(wire[i].frame - 1) :
             \E j \in Entries(wire, "destroy") : j < i /\ wire[j].frame = f

\* two frame requests reached their terminal state and were destroyed
C7_Witness ==
    /\ pc = "ready"
    /\ Cardinality(Entries(wire, "destroy")) >= 2

\* C8: a frame request that has its terminal state is immutable: no event
\* received for it afterwards changes its candidate lists, its done flag or
\* its terminal state.
C8_TerminalRequestImmutable ==
    [][(SameRequest /\ IsSome(Unwrap(current_frame).info.state)) =>
          /\ Unwrap(current_frame').info.shm_formats
                = Unwrap(current_frame).info.shm_formats
          /\ Unwrap(current_frame').info.dmabuf_formats
                = Unwrap(current_frame).info.dmabuf_formats
          /\ Unwrap(current_frame').info.done = Unwrap(current_frame).info.done
          /\ Unwrap(current_frame').info.state = Unwrap(current_frame).info.state]_vars

\* the delivered event is not for the tracked request
ForeignEvent ==
    \/ current_frame = None
    \/ delivered.proxy # Unwrap(current_frame).frame

\* C9: a frame event whose frame object is not the tracked request, or that
\* arrives while no request is tracked, makes the handler panic and leaves
\* current_frame as it was.
C9_ForeignEventAborts ==
    [][(pc = "dispatch" /\ ForeignEvent) =>
          pc' = "panicked" /\ current_frame' = current_frame]_vars

\* the handler has panicked on an event for a frame object other than the
\* tracked one
C9_Witness ==
    /\ pc = "panicked"
    /\ IsSome(current_frame)
    /\ delivered.proxy # Unwrap(current_frame).frame

\* the format codes a frame request advertised, in either list
AdvertisedCodes(info) ==
    {info.shm_formats[i].format : i \in 1..Len(info.shm_formats)}
        \cup {info.dmabuf_formats[i].format : i \in 1..Len(info.dmabuf_formats)}

\* C10: for every copy of a session, the format code of the buffer's
\* wl_buffer is one the request it is copied into advertised, in its
\* shared-memory or in its zero-copy candidate list.
C10_BufferFormatAdvertised ==
    [][Appended("copy") =>
          Unwrap(new_buffer').format
              \in AdvertisedCodes(Unwrap(current_frame).info)]_vars

\* the allocator of the installed pool
PoolAllocator(pool) == Unwrap(Unwrap(pool).allocator)

\* the caps the installed pool was configured for
PoolCaps(pool) ==
    Caps(Unwrap(Unwrap(pool).video_info).format,
         Unwrap(Unwrap(pool).video_info).width,
         Unwrap(Unwrap(pool).video_info).height)

\* C11: when the negotiated format translates to a fourcc among the tracked
\* request's zero-copy candidates and the session has the linux-dmabuf
\* global, a decide_allocation call that installs a pool never gives it the
\* memfd (sealed shared memory) allocator.
C11_ZeroCopyNeverShm ==
    [][( /\ buffer_pool' # buffer_pool
         /\ dmabuf
         /\ IsSome(current_frame)
         /\ \E i \in 1..Len(Unwrap(current_frame).info.dmabuf_formats) :
               Some(Unwrap(current_frame).info.dmabuf_formats[i].format)
                   = gst_video_format_to_drm_fourcc(PoolCaps(buffer_pool').format) )
       => PoolAllocator(buffer_pool') \in {"DmaHeap", "Gbm"}]_vars

\* C11 witness: a zero-copy pool is installed in a session with the
\* transport, for a format the tracked request advertised as a zero-copy
\* candidate
C11_Witness ==
    /\ pc = "ready"
    /\ dmabuf
    /\ IsSome(buffer_pool)
    /\ PoolAllocator(buffer_pool) = "Gbm"
    /\ IsSome(current_frame)
    /\ PoolCaps(buffer_pool) \in FrameCaps(Unwrap(current_frame).info)
    /\ Len(Unwrap(current_frame).info.dmabuf_formats) > 0

\* C12: in a session without the linux-dmabuf global, a decide_allocation
\* call for caps offered for the tracked request, with every call inside
\* set_config succeeding, installs a pool with the memfd allocator, whatever
\* the two candidate lists of the request contain.
C12_NoTransportSelectsShm ==
    [][\A format \in VideoFormats, width \in Widths, height \in Heights,
          dma_heap_available \in BOOLEAN :
          ( /\ DecideAllocation(format, width, height, dma_heap_available, TRUE, TRUE)
            /\ ~dmabuf
            /\ IsSome(current_frame)
            /\ Caps(format, width, height) \in FrameCaps(Unwrap(current_frame).info) )
          => /\ pc' = "ready"
             /\ PoolAllocator(buffer_pool') = "Memfd"]_vars

\* C13: a decide_allocation call for caps offered for the tracked request,
\* with every call inside set_config succeeding, installs the dma-heap
\* allocator when the format is a zero-copy candidate, the transport is
\* there and the heap is available, the gbm allocator when the heap is not
\* available, and the memfd allocator in every other case.
C13_AllocatorChoice ==
    [][\A format \in VideoFormats, width \in Widths, height \in Heights,
          dma_heap_available \in BOOLEAN :
          ( /\ DecideAllocation(format, width, height, dma_heap_available, TRUE, TRUE)
            /\ IsSome(current_frame)
            /\ Caps(format, width, height) \in FrameCaps(Unwrap(current_frame).info) )
          => /\ pc' = "ready"
             /\ PoolAllocator(buffer_pool')
                  = IF dmabuf /\ \E i \in 1..Len(Unwrap(current_frame).info.dmabuf_formats) :
                          Some(Unwrap(current_frame).info.dmabuf_formats[i].format)
                              = gst_video_format_to_drm_fourcc(format)
                    THEN IF dma_heap_available THEN "DmaHeap" ELSE "Gbm"
                    ELSE "Memfd"]_vars

\* the buffers the pool allocated (not the copies made of them)
Pooled == {i \in 1..Len(buffers) : buffers[i].pooled}

\* the tracked request advertises exactly one zero-copy candidate
OnlyCandidate == Unwrap(current_frame).info.dmabuf_formats[1]

\* C14: when the tracked request advertises exactly one zero-copy candidate
\* (code A, width W, height H), the session has the linux-dmabuf global and
\* decide_allocation configured the pool for the caps of that candidate,
\* every buffer the pool allocates has dmabuf memory and a wl_buffer made by
\* the buffer-params exchange with width W, height H and format A.
C14_ZeroCopyBuffer ==
    ( /\ IsSome(buffer_pool)
      /\ dmabuf
      /\ Len(Unwrap(current_frame).info.dmabuf_formats) = 1
      /\ IsSome(gst_video_format_from_drm_fourcc(OnlyCandidate.format))
      /\ PoolCaps(buffer_pool)
            = Caps(Unwrap(gst_video_format_from_drm_fourcc(OnlyCandidate.format)),
                   OnlyCandidate.width, OnlyCandidate.height) )
    => \A i \in Pooled :
          /\ buffers[i].buffer.memory = "DmaBuf"
          /\ objects[buffers[i].wl_buffer].kind = "wl_buffer"
          /\ objects[buffers[i].wl_buffer - 1].kind = "params"
          /\ buffers[i].buffer.format = OnlyCandidate.format
          /\ buffers[i].buffer.width = OnlyCandidate.width
          /\ buffers[i].buffer.height = OnlyCandidate.height

\* C14 witness: such a pool has allocated a buffer for the 40 pixel wide
\* candidate
C14_Witness ==
    /\ IsSome(buffer_pool)
    /\ dmabuf
    /\ Len(Unwrap(current_frame).info.dmabuf_formats) = 1
    /\ OnlyCandidate.width = 40
    /\ PoolCaps(buffer_pool)
          = Caps(Unwrap(gst_video_format_from_drm_fourcc(OnlyCandidate.format)),
                 OnlyCandidate.width, OnlyCandidate.height)
    /\ Pooled # {}

\* the last call was set_config
Configured == last.op = "set_config"

\* the size the config of the last set_config call asked for
RequestedSize == Unwrap(Unwrap(last.config).params).size

\* the size of the layout the pool holds
LayoutSize == Unwrap(Unwrap(buffer_pool).video_info).size

NoLayout(config) ==
    \/ config.params = None
    \/ Unwrap(config.params).caps = None
    \/ Unwrap(Unwrap(config.params).caps).format \notin VideoFormats

\* C16: set_config returns false when the config carries no params, no caps
\* or caps that cannot be parsed into a video layout.
C16_NoLayoutRejected ==
    (Configured /\ NoLayout(Unwrap(last.config))) => ~last.ok

\* C16 witness: a config whose caps are no raw video has been rejected
C16_Witness ==
    /\ Configured
    /\ ~last.ok
    /\ Unwrap(last.config).params # None
    /\ Unwrap(Unwrap(last.config).params).caps = Some(Caps("Encoded", 2, 1))

\* C17: a set_config call that returns false leaves the layout, the
\* allocator, the allocation params and the video-meta flag of the pool as
\* they were before the call.
C17_FailedConfigKeepsState ==
    (Configured /\ ~last.ok)
    => /\ Unwrap(buffer_pool).video_info = Unwrap(last.before).video_info
       /\ Unwrap(buffer_pool).allocator = Unwrap(last.before).allocator
       /\ Unwrap(buffer_pool).allocation_params = Unwrap(last.before).allocation_params
       /\ Unwrap(buffer_pool).add_video_meta = Unwrap(last.before).add_video_meta

\* C18: no buffer the pool allocated has a backing region smaller than the
\* size of the layout it was allocated for.
C18_RegionCoversLayout ==
    \A i \in Pooled : buffers[i].real >= buffers[i].layout

C20_NoDanglingObjects ==
    \A k \in 1..Len(objects) : ~objects[k].attached => objects[k].destroyed >= 1

\* the two protocol objects the alloc_buffer call of buffer i created
Created(i) == {buffers[i].wl_buffer - 1, buffers[i].wl_buffer}

\* C21: every buffer alloc_buffer returned, with dmabuf memory or with memfd
\* memory, has exactly one protocol object attached in its meta, a wl_buffer
\* of its own, so the meta create() looks up on an acquired buffer is there.
C21_OneHandlePerBuffer ==
    \A i \in Pooled :
        /\ buffers[i].buffer.memory \in {"DmaBuf", "Fd"}
        /\ Cardinality({k \in Created(i) : objects[k].attached}) = 1
        /\ \A k \in Created(i) : objects[k].attached => objects[k].kind = "wl_buffer"
        /\ \A j \in Pooled : j # i => Created(j) \cap Created(i) = {}

\* C21 witness: the pool has returned two buffers with memfd memory
C21_Witness ==
    /\ Cardinality(Pooled) = 2
    /\ \A i \in Pooled : buffers[i].buffer.memory = "Fd"
    /\ last = Call("alloc_buffer", None, TRUE, None)

\* C22: while the pool is not configured again, allocating, freeing, copying
\* and dropping buffers leave its State (allocator, layout) as it is, and
\* all buffers it has allocated have the same wl_buffer parameters, the same
\* layout size and the same kind of memory.
C22_StableBetweenConfigures ==
    /\ [][(buffers' # buffers \/ objects' # objects) => buffer_pool' = buffer_pool]_vars
    /\ [](\A i \in Pooled : \A j \in Pooled :
            /\ buffers[i].buffer = buffers[j].buffer
            /\ buffers[i].layout = buffers[j].layout
            /\ buffers[i].layout = Unwrap(Unwrap(buffer_pool).video_info).size
            /\ (buffers[i].buffer.memory = "DmaBuf")
                  = (PoolAllocator(buffer_pool) \in {"DmaHeap", "Gbm"}))

\* C22 witness: two buffers allocated under one configuration with the gbm
\* allocator, the first of them freed before
C22_Witness ==
    /\ Cardinality(Pooled) = 2
    /\ PoolAllocator(buffer_pool) = "Gbm"
    /\ \E i \in Pooled : buffers[i].freed

\* the eight permutations of four 8-bit channels, as wl_shm and DRM name them
Rgb8888Codes ==
    {"Abgr8888", "Argb8888", "Bgra8888", "Bgrx8888", "Rgba8888", "Rgbx8888",
     "Xbgr8888", "Xrgb8888"}

\* the same eight as the pipeline names them
Rgb8888Formats == {"Abgr", "Argb", "Bgra", "Bgrx", "Rgba", "Rgbx", "Xbgr", "Xrgb"}

ToInternal == {"gst_video_format_from_wl_shm", "gst_video_format_from_drm_fourcc"}

ToExternal == {"gst_video_format_to_wl_shm", "gst_video_format_to_drm_fourcc"}

\* C23: a code of the eight permutations, of wl_shm or of DRM, that is
\* translated to the pipeline's format and back comes back as itself.
C23_RoundTrip ==
    ( /\ pc = "translated_back"
      /\ query.op \in ToExternal
      /\ Unwrap(query.origin) \in Rgb8888Codes )
    => query.result = query.origin

\* C23 witness: Xrgb8888 of wl_shm went to Bgrx and came back
C23_Witness ==
    /\ pc = "translated_back"
    /\ query = Query("gst_video_format_to_wl_shm", Some("Bgrx"), Some("Xrgb8888"),
                     Some("Xrgb8888"))

\* C24: each of the four functions answers for the eight permutations and
\* for nothing else, where it returns None (the call itself never fails);
\* what the two from-functions produce is what the two to-functions accept.
C24_EightCodes ==
    /\ Cardinality(Rgb8888Codes) = 8
    /\ Cardinality(Rgb8888Formats) = 8
    /\ pc = "translated" =>
          /\ query.op \in ToInternal =>
                /\ IsSome(query.result) <=> Unwrap(query.arg) \in Rgb8888Codes
                /\ IsSome(query.result) => Unwrap(query.result) \in Rgb8888Formats
          /\ query.op \in ToExternal =>
                /\ IsSome(query.result) <=> Unwrap(query.arg) \in Rgb8888Formats
                /\ IsSome(query.result) => Unwrap(query.result) \in Rgb8888Codes
    /\ pc = "translated_back" =>
          \* every format a from-function produced is accepted by the
          \* to-function, and the other way round
          IsSome(query.result)
    /\ \A op \in ToInternal :
          {Unwrap(Translation(op, c)) : c \in Rgb8888Codes} = Rgb8888Formats

\* C24 witness: a code outside the eight got no answer
C24_Witness ==
    /\ pc = "translated"
    /\ query = Query("gst_video_format_from_drm_fourcc", Some("Nv12"), None, None)

\* the caps query that was answered from the stored session
CapsAnswered == query.op = "caps" /\ IsSome(query.result)

\* the candidates of the tracked request whose code has a translation, as
\* (format, width, height)
Negotiable ==
    LET info == Unwrap(current_frame).info
    IN  {<<Unwrap(gst_video_format_from_wl_shm(info.shm_formats[i].format)),
           info.shm_formats[i].width, info.shm_formats[i].height>> :
            i \in {j \in 1..Len(info.shm_formats) :
                      info.shm_formats[j].format \in Rgb8888Codes}}
        \cup
        {<<Unwrap(gst_video_format_from_drm_fourcc(info.dmabuf_formats[i].format)),
           info.dmabuf_formats[i].width, info.dmabuf_formats[i].height>> :
            i \in {j \in 1..Len(info.dmabuf_formats) :
                      info.dmabuf_formats[j].format \in Rgb8888Codes}}

\* C25: the caps the query returns are those of all candidates, shm and
\* dmabuf, of the tracked request whose code translates; candidates with
\* other codes are left out, and the query fails only when no output has
\* the name it looked for.
C25_CapsAreUnionOfCandidates ==
    /\ CapsAnswered =>
          {<<e.format, e.width, e.height>> : e \in Unwrap(query.result)} = Negotiable
    /\ (query.op = "caps" /\ pc = "panicked" /\ wire # <<>>) =>
          /\ IsSome(query.arg)
          /\ \A i \in 1..Len(outputs) : outputs[i].name # Unwrap(query.arg)

\* C25 witness: the request has a candidate that translates and one that
\* does not, and the caps have one entry
C25_Witness ==
    /\ CapsAnswered
    /\ Len(Unwrap(current_frame).info.shm_formats) = 1
    /\ Unwrap(current_frame).info.shm_formats[1].format = "Rgb565"
    /\ Len(Unwrap(current_frame).info.dmabuf_formats) = 1
    /\ Cardinality(Unwrap(query.result)) = 1

\* the output the caps query looked up
QueriedOutput ==
    IF IsSome(query.arg)
    THEN CHOOSE i \in 1..Len(outputs) : outputs[i].name = Unwrap(query.arg)
    ELSE 1

\* C26: every entry of the caps the query returns has the width and height
\* of the current mode of the output the query selected, and a framerate
\* range that ends at the refresh rate of that mode (wl_output reports
\* mHz: 60000 is 60/1).
C26_TaggedWithOutputMode ==
    CapsAnswered =>
        \A e \in Unwrap(query.result) :
            /\ e.width = outputs[QueriedOutput].mode.width
            /\ e.height = outputs[QueriedOutput].mode.height
            /\ e.framerate.max = Fraction(outputs[QueriedOutput].mode.refresh, 1000)

\* C27: when connect_to_wl_display or create() gets past its output
\* selection, the request it issues targets an output whose name is the
\* output-name setting, or the first output when no name is set; when no
\* output has the name, or there is no output, it panics and issues no
\* request.
C27_OutputSelection ==
    [][((pc = "connect_outputs" /\ pc' # pc) \/ (pc = "create_copy" /\ pc' # pc)) =>
          LET matches == IF IsSome(settings.output_name)
                         THEN {i \in 1..Len(outputs) :
                                 outputs[i].name = Unwrap(settings.output_name)}
                         ELSE {i \in 1..Len(outputs) : i = 1}
          IN  /\ matches = {} =>
                    /\ pc' = "panicked"
                    /\ Entries(wire', "capture_output") = Entries(wire, "capture_output")
              /\ (matches # {} /\ pc' # "panicked") =>
                    /\ Appended("capture_output")
                    /\ IsSome(current_frame')
                    /\ Unwrap(current_frame').frame = LastEntry(wire').frame
                    /\ Unwrap(current_frame').output \in matches]_vars

\* C27 witness: a re-arm has targeted the second output by its name
C27_Witness ==
    /\ pc = "create_rearm"
    /\ settings.output_name = Some("HDMI-1")
    /\ Len(outputs) = 2
    /\ outputs[1].name = "eDP-1"
    /\ Unwrap(current_frame).output = 2

\* C28: a step that changes the settings changes nothing of the session
\* (outputs, tracked request, requests sent, pool, results), and a request
\* keeps the output it was issued for as long as it is tracked.
C28_SettingsLeaveSession ==
    [][/\ settings' # settings =>
            UNCHANGED <<pc, dmabuf, outputs, current_frame, next_frame, buffer_pool,
                        new_buffer, frame_state, wire, returned>>
       /\ (/\ IsSome(current_frame) /\ IsSome(current_frame')
           /\ Unwrap(current_frame').frame = Unwrap(current_frame).frame) =>
              Unwrap(current_frame').output = Unwrap(current_frame).output]_vars

\* C28 witness: the output name was set to that of the second output while
\* a request for the first one is tracked
C28_Witness ==
    /\ pc = "ready"
    /\ settings.output_name = Some("HDMI-1")
    /\ Len(outputs) = 2
    /\ outputs[2].name = "HDMI-1"
    /\ IsSome(current_frame)
    /\ Unwrap(current_frame).output = 1

\* C29: connect_to_wl_display selects an output, and a caps query reads
\* one, only when every registered output is done.
C29_NoReadBeforeDone ==
    [][(\/ wire' # wire
        \/ pc = "connect_outputs" /\ pc' # pc
        \/ query' # query /\ query'.op = "caps"
             /\ (IsSome(query'.result) \/ pc' = "panicked")) =>
          \A i \in 1..Len(outputs) : outputs[i].done]_vars

\* C29 witness: the caps query was answered in a session with two outputs
C29_Witness ==
    /\ CapsAnswered
    /\ Len(outputs) = 2
    /\ outputs[2].mode.refresh = 60000

\* C30: an event delivered for an output that is done changes neither its
\* name nor its description nor its mode.
C30_ReadOnlyOnceDone ==
    [][\A i \in 1..Len(outputs) :
          (Len(outputs') = Len(outputs) /\ outputs[i].done) =>
              /\ outputs'[i].name = outputs[i].name
              /\ outputs'[i].description = outputs[i].description
              /\ outputs'[i].mode = outputs[i].mode]_vars

\* positions in the delivered sequence of the mode events flagged current
CurrentModes ==
    {k \in 1..Len(delivered) :
        /\ delivered[k].source = "wl_output"
        /\ delivered[k].kind = "Mode"
        /\ delivered[k].current}

\* the largest member of a non-empty set of positions
Latest(ks) == CHOOSE k \in ks : \A j \in ks : j <= k

\* C31: after any sequence of events of an output its retained mode is the
\* most recent mode event flagged current (the default mode if there was
\* none); a mode event not flagged current changes nothing, and a done event
\* changes only info_complete.
C31_RetainedMode ==
    /\ [](outputs[1].mode =
            IF CurrentModes = {} THEN Mode
            ELSE LET event == delivered[Latest(CurrentModes)]
                 IN  [width |-> event.width, height |-> event.height,
                      refresh |-> event.refresh])
    /\ [][LET event == delivered'[Len(delivered')]
          IN  /\ (event.kind = "Mode" /\ ~event.current) => outputs' = outputs
              /\ event.kind = "Done" =>
                    outputs' = [outputs EXCEPT ![1].done = TRUE]]_vars

\* C31 witness: a current mode, then a current mode of another size, then a
\* mode that is not current: the second one is retained
C31_Witness ==
    /\ Len(delivered) = 3
    /\ delivered[1].kind = "Mode" /\ delivered[1].current
    /\ delivered[2].kind = "Mode" /\ delivered[2].current
    /\ delivered[2].width # delivered[1].width
    /\ delivered[3].kind = "Mode" /\ ~delivered[3].current
    /\ outputs[1].mode = [width |-> delivered[2].width,
                          height |-> delivered[2].height,
                          refresh |-> delivered[2].refresh]

\* the name of the output has arrived from its zxdg_output_v1
NameReceived ==
    \E k \in 1..Len(delivered) :
        delivered[k].source = "xdg_output" /\ delivered[k].kind = "Name"

\* C38: an output whose name comes from its zxdg_output_v1 is not marked
\* complete before that name has been received.
C38_CompleteOnlyWithName == outputs[1].done => NameReceived

\* C32: once the element is back in NULL no session is held: no output, no
\* frame request, and no frame object that was requested and not destroyed.
C32_NothingHeldInNull ==
    pc = "null" =>
        /\ outputs = <<>>
        /\ current_frame = None
        /\ InFlight(wire) = {}

\* the events of one kind delivered for the request, in arrival order
Received(kind) ==
    LET OfKind(event) == event.kind = kind
    IN  SelectSeq(delivered, OfKind)

\* those of them whose format code the client library knows
Recognised(kind) ==
    LET Known(event) == event.kind = kind /\ event.format # "Unknown"
    IN  SelectSeq(delivered, Known)

\* the request is accumulating formats: buffer_done has not arrived
Accumulating ==
    /\ IsSome(current_frame)
    /\ ~Unwrap(current_frame).info.done

\* C33 as stated: while the request accumulates formats its candidate lists
\* are the buffer and linux_dmabuf events received for it, in arrival order
\* and with duplicates kept.
C33_ListsAreEventsReceived ==
    Accumulating =>
        LET info == Unwrap(current_frame).info
        IN  /\ info.shm_formats =
                 [k \in 1..Len(Received("Buffer")) |->
                     ShmFormatOf(Received("Buffer")[k])]
            /\ info.dmabuf_formats =
                 [k \in 1..Len(Received("LinuxDmabuf")) |->
                     DmabufFormatOf(Received("LinuxDmabuf")[k])]

\* C33, amended: while the request accumulates formats its candidate lists
\* are the buffer and linux_dmabuf events received for it whose format code
\* is recognised, in arrival order and with duplicates kept; an event with
\* an unrecognised code leaves no entry.
C33_ListsAreRecognisedEvents ==
    Accumulating =>
        LET info == Unwrap(current_frame).info
        IN  /\ info.shm_formats =
                 [k \in 1..Len(Recognised("Buffer")) |->
                     ShmFormatOf(Recognised("Buffer")[k])]
            /\ info.dmabuf_formats =
                 [k \in 1..Len(Recognised("LinuxDmabuf")) |->
                     DmabufFormatOf(Recognised("LinuxDmabuf")[k])]

\* C33 witness: two candidates of different sizes and then the first one
\* again were received and are listed in that order
C33_Witness ==
    /\ Accumulating
    /\ Len(delivered) = 3
    /\ Len(Unwrap(current_frame).info.shm_formats) = 3
    /\ delivered[1] = delivered[3]
    /\ delivered[1] # delivered[2]

\* C34: a call of create() that has sent its copy returns (or aborts) when
\* the compositor delivers the terminal signal of the copied request and
\* answers the re-armed request with buffer_done or failed.
C34_CreateReturns ==
    (pc \in {"create_copy", "create_rearm"}) ~> (pc \in {"ready", "panicked"})

\* thread t is inside lock() of a mutex whose guard thread u holds
WaitsFor(t, u) ==
    /\ Wanted(threads[t].at) # ""
    /\ Wanted(threads[t].at) \in threads[u].held

\* C35: no set of threads waits in a circle, each one inside lock() of a
\* mutex that another one of the set holds.
C35_NoDeadlock ==
    \A waiting \in SUBSET Threads :
        waiting # {} =>
            \E t \in waiting : \A u \in waiting : ~WaitsFor(t, u)

\* C36: a property access never waits for the settings mutex while its
\* holder is inside a blocking_dispatch loop.
C36_PropertyNeverWaitsForCompositor ==
    \A u \in Threads :
        WaitsFor("control", u) => threads[u].at \notin InDispatch

\* C37: a frame object gets at most one copy request, sent while it is the
\* tracked request and before its destroy, and a frame object create() has
\* destroyed got exactly one.
C37_OneCopyPerFrame ==
    /\ \A i, j \in Entries(wire, "copy") :
          wire[i].frame = wire[j].frame => i = j
    /\ \A i \in Entries(wire, "copy") :
          /\ \E j \in Entries(wire, "capture_output") :
                j < i /\ wire[j].frame = wire[i].frame
          /\ \A j \in Entries(wire, "destroy") :
                wire[j].frame = wire[i].frame => i < j
    /\ \A j \in Entries(wire, "destroy") :
          Cardinality({i \in Entries(wire, "copy") :
                          wire[i].frame = wire[j].frame}) = 1

\* C37 witness: create() was called twice and the second call has sent its
\* copy on the request the first call left behind
C37_Witness ==
    /\ Cardinality(Entries(wire, "copy")) = 2
    /\ Cardinality(Entries(wire, "return")) = 1
    /\ LastEntry(wire).op = "copy"
    /\ LastEntry(wire).frame = 2

\* C39: the shared-memory code an internal format translates to and the DRM
\* fourcc it translates to are the same named code.
C39_SameNamedCode ==
    (/\ pc = "translated"
     /\ query.op = "gst_video_format_to_wl_shm"
     /\ IsSome(query.result)) =>
        gst_video_format_to_drm_fourcc(Unwrap(query.arg)) = query.result

====
